---- MODULE Spec2Model ----
(***************************************************************************)
(* Edition Manager: the out-of-process task orchestrator (TaskRunner of    *)
(* edition-manager-gui.py) and the synchronisation run it drives           *)
(* (progress reporter and change cache of edition-manager.py).             *)
(*                                                                         *)
(* Granularity: every `with self._lock:` block is one atomic step; code    *)
(* between two lock blocks that touches only thread-local values is folded *)
(* into the next step of the same thread.  Python values None / x are the  *)
(* sequences <<>> / <<x>>.  Percentages are integers in units of 1/Scale   *)
(* percent (the four decimals of the PROGRESS wire format).  The HH:MM:SS  *)
(* stamp _append_log puts before each message is left out of the log       *)
(* entries: no step of the orchestrator reads it back.                     *)
(***************************************************************************)
EXTENDS Integers, Sequences, FiniteSets, TLC

(* ------------------------------ bounds --------------------------------- *)
\* calls of POST /api/run made in one behaviour
MaxStarts == 2
\* calls of POST /api/cancel made in one behaviour
MaxCancels == 1
\* lines one child process writes to its standard output
MaxLines == 1
\* the largest item count handed to _progress_set_total
MaxTotal == 4
\* calls of _progress_step made in one run
MaxSteps == 4
\* the largest k of a _progress_step(k) call
MaxK == 2
\* the largest total of a run whose steps are followed in double arithmetic
MaxExactTotal == 7
\* worker threads of the pool inside one run
NumWorkers == 2
\* runs of edition-manager.py, one after the other, over one cache file
MaxProcs == 2
\* SyncAll runs (edition-manager.py --all), one after the other, over one
\* library and one cache file
MaxSyncRuns == 2
\* items edited on the server between two SyncAll runs
MaxEdits == 1
\* the largest batch_size of the [performance] section
MaxBatch == 2

(* ------------------------- program constants --------------------------- *)
LOG_LIMIT == 1500
\* save_progress_cache(force=False) writes once this many changes are unsaved
FLUSH_THRESHOLD == 25
\* PROGRESS carries the percentage with four decimals
Scale == 10000

None == <<>>
Some(x) == <<x>>
Min(a, b) == IF a < b THEN a ELSE b
Max(a, b) == IF a > b THEN a ELSE b

VARIABLES
  \* TaskRunner fields
  running, progress, progress_counts, current_flag, exit_code, logs, proc,
  started_at,
  \* HTTP side: requests made so far, last response, the thread inside cancel()
  nStartCalls, nCancelCalls, resp, canceller,
  \* one _run_process thread and at most one child process per accepted start
  nRuns, reader, child, pipe,
  \* edition-manager.py, progress reporter: the module globals, the PROGRESS
  \* lines printed so far, whether _progress_set_total has run, calls per worker
  progress_total, progress_done, progress_last_emit, stdout, reporter_pc,
  step_calls,
  \* edition-manager.py, change cache: the module globals, the cache file,
  \* the phase of the process, each worker's place inside
  \* mark_movie_processed, the last call of should_skip_movie or
  \* mark_movie_processed with what it returned
  progress_cache, progress_cache_dirty, cache_file, cache_pc, nProcs, marker,
  last_call,
  \* edition-manager.py --all: the configuration (modules, max_workers,
  \* batch_size), the remote library (the items it lists, the PUT requests it
  \* has received per item, which items were edited since the last run), the
  \* main thread of process_movies (its place, pending_movies, the index i of
  \* the chunk loop), the executor (its queue, each unit's future, the
  \* futures as_completed has yielded, each pool thread), the log records
  \* written, and what each run did to each item
  modules, max_workers, batch_size, library, puts, edited,
  sync_pc, pending_movies, chunk_i, queue, futures, yielded, pool,
  errlog, nSyncRuns, history, file_at_load,
  \* edition-manager.py --restore: the entries of metadata_backup.json
  backup_file,
  \* history: the text the last save_progress_cache that ran to its end
  \* left in the cache file (followed only where a save takes two steps)
  flushed

orchVars == <<running, progress, progress_counts, current_flag, exit_code, logs,
              proc, started_at, nStartCalls, nCancelCalls, resp, canceller,
              nRuns, reader, child, pipe>>

taskStatus == <<running, progress, progress_counts, current_flag, exit_code,
                logs, started_at>>

progVars == <<progress_total, progress_done, progress_last_emit, stdout,
              reporter_pc, step_calls>>

cacheVars == <<progress_cache, progress_cache_dirty, cache_file, cache_pc,
               nProcs, marker, last_call>>

syncVars == <<modules, max_workers, batch_size, library, puts, edited,
              sync_pc, pending_movies, chunk_i, queue, futures, yielded, pool,
              errlog, nSyncRuns, history, file_at_load, backup_file,
              flushed>>

vars == <<orchVars, progVars, cacheVars, syncVars>>

Workers == 1..NumWorkers

Runs == 1..MaxStarts

(* ----------------------------- action flags ----------------------------- *)
ACTION_FLAGS == [all |-> "--all", reset |-> "--reset", backup |-> "--backup",
            restore |-> "--restore"]
\* the "action" fields the requests of a behaviour carry
RequestActions == {"all", "bogus"}

(* ------------------------- what a child writes ------------------------- *)
P50 == "PROGRESS 50.0000 1 2"
PBad == "PROGRESS n/a"
Plain == "Processed batch 1/1"
ChildLines == {P50, PBad, Plain}

\* line.startswith("PROGRESS ")
StartsWithProgress(line) == line \in {P50, PBad}
\* line.split()
Split(line) ==
  CASE line = P50 -> <<"PROGRESS", "50.0000", "1", "2">>
    [] line = PBad -> <<"PROGRESS", "n/a">>
    [] OTHER -> <<"Processed", "batch", "1/1">>
\* float(tok): the value in 1/Scale percent, None on ValueError
ParseFloat(tok) ==
  CASE tok = "50.0000" -> Some(50 * Scale)
    [] OTHER -> None
\* int(tok), None on ValueError
ParseInt(tok) ==
  CASE tok = "0" -> Some(0)
    [] tok = "1" -> Some(1)
    [] tok = "2" -> Some(2)
    [] OTHER -> None

(* ------------------------------ the log -------------------------------- *)
\* mutant: the deque has no maxlen
deque_unbounded(q, x, n) == Append(q, x)

\* deque(maxlen=n).append(x)
DequeAppend(q, x, n) == IF Len(q) >= n THEN Tail(q) \o <<x>> ELSE Append(q, x)

\* _append_log
append_log(message) == logs' = DequeAppend(logs, message, LOG_LIMIT)

MsgMissing == "Error: 'edition-manager.py' not found next to the web UI."
MsgRunning(flag) == "Running: python3 edition-manager.py " \o flag
MsgNoPython == "Error: Python interpreter not found."
MsgUnexpected == "Unexpected error: exc"
MsgTerminate == "Termination requested, stopping process..."
MsgOk == "Job completed successfully."
MsgFail(code) == "Job finished with exit code " \o ToString(code) \o "."
TerminalMsg(code) == IF code = 0 THEN MsgOk ELSE MsgFail(code)

(* ------------------------------- Init ---------------------------------- *)
NoReader == [pc |-> "none", flag |-> "", code |-> None, line |-> None,
             site |-> 0]
NoChild == [state |-> "none", code |-> 0, written |-> 0, sig |-> 0]

InitOrch ==
  /\ running = FALSE
  /\ progress = 0
  /\ progress_counts = [done |-> 0, total |-> 0]
  /\ current_flag = None
  /\ exit_code = None
  /\ logs = <<>>
  /\ proc = None
  /\ started_at = None
  /\ nStartCalls = 0
  /\ nCancelCalls = 0
  /\ resp = [handler |-> "none", code |-> 0, body |-> ""]
  /\ canceller = [pc |-> "idle", proc |-> None]
  /\ nRuns = 0
  /\ reader = [r \in Runs |-> NoReader]
  /\ child = [r \in Runs |-> NoChild]
  /\ pipe = [r \in Runs |-> <<>>]

(* -------------------------- TaskRunner.start --------------------------- *)
\* mutant: start() without the test of self._running
start_conflict_never == FALSE

\* `if self._running: raise RuntimeError`
start_conflict == running

\* lines 110-119: the reset under the lock, then the worker thread
start_accept(flag, now) ==
  /\ running' = TRUE
  /\ progress' = 0
  /\ progress_counts' = [done |-> 0, total |-> 0]
  /\ exit_code' = None
  /\ logs' = <<>>
  /\ current_flag' = Some(flag)
  /\ started_at' = Some(now)
  /\ nRuns' = nRuns + 1
  /\ reader' = [reader EXCEPT ![nRuns + 1] =
                  [pc |-> "start", flag |-> flag, code |-> None,
                   line |-> None, site |-> 0]]
  /\ UNCHANGED <<proc, child, pipe>>

\* POST /api/run
run_action(action) ==
  /\ nStartCalls < MaxStarts
  /\ nStartCalls' = nStartCalls + 1
  /\ UNCHANGED <<nCancelCalls, canceller>>
  /\ IF action \notin DOMAIN ACTION_FLAGS
       THEN /\ resp' = [handler |-> "run", code |-> 400, body |-> "Unknown action."]
            /\ UNCHANGED <<taskStatus, proc, nRuns, reader, child, pipe>>
       ELSE IF start_conflict
         THEN /\ resp' = [handler |-> "run", code |-> 400,
                          body |-> "Another operation is already running."]
              /\ UNCHANGED <<taskStatus, proc, nRuns, reader, child, pipe>>
         ELSE /\ start_accept(ACTION_FLAGS[action], nStartCalls + 1)
              /\ resp' = [handler |-> "run", code |-> 200, body |-> "started"]
  /\ UNCHANGED <<progVars, cacheVars, syncVars>>

(* -------------------------- TaskRunner.cancel -------------------------- *)
Alive(r) == child[r].state = "alive"

\* line 122-123, and the `proc and ...` test when proc is None
cancel_read ==
  /\ canceller.pc = "idle"
  /\ nCancelCalls < MaxCancels
  /\ nCancelCalls' = nCancelCalls + 1
  /\ IF proc = None
       THEN /\ resp' = [handler |-> "cancel", code |-> 400,
                        body |-> "No running process to cancel."]
            /\ UNCHANGED canceller
       ELSE /\ canceller' = [pc |-> "poll", proc |-> proc]
            /\ UNCHANGED resp
  /\ UNCHANGED <<taskStatus, proc, nStartCalls, nRuns, reader, child, pipe>>
  /\ UNCHANGED <<progVars, cacheVars, syncVars>>

\* proc.poll() is None
cancel_poll ==
  /\ canceller.pc = "poll"
  /\ IF Alive(canceller.proc[1])
       THEN /\ canceller' = [canceller EXCEPT !.pc = "log"]
            /\ UNCHANGED resp
       ELSE /\ canceller' = [pc |-> "idle", proc |-> None]
            /\ resp' = [handler |-> "cancel", code |-> 400,
                        body |-> "No running process to cancel."]
  /\ UNCHANGED <<taskStatus, proc, nStartCalls, nCancelCalls, nRuns, reader,
                 child, pipe>>
  /\ UNCHANGED <<progVars, cacheVars, syncVars>>

\* line 125
cancel_log ==
  /\ canceller.pc = "log"
  /\ append_log(MsgTerminate)
  /\ canceller' = [canceller EXCEPT !.pc = "terminate"]
  /\ UNCHANGED <<running, progress, progress_counts, current_flag, exit_code,
                 started_at, proc, nStartCalls, nCancelCalls, resp, nRuns,
                 reader, child, pipe>>
  /\ UNCHANGED <<progVars, cacheVars, syncVars>>

\* proc.terminate(): SIGTERM unless the child has already exited; return True
cancel_terminate ==
  /\ canceller.pc = "terminate"
  /\ LET r == canceller.proc[1] IN
       child' = IF Alive(r) THEN [child EXCEPT ![r].sig = 1] ELSE child
  /\ canceller' = [pc |-> "idle", proc |-> None]
  /\ resp' = [handler |-> "cancel", code |-> 200, body |-> "terminating"]
  /\ UNCHANGED <<taskStatus, proc, nStartCalls, nCancelCalls, nRuns, reader,
                 pipe>>
  /\ UNCHANGED <<progVars, cacheVars, syncVars>>

\* GET /api/status: TaskRunner.status(), one snapshot under the lock
status ==
  [running |-> running, progress |-> progress, current_flag |-> current_flag,
   exit_code |-> exit_code, logs |-> logs, started_at |-> started_at,
   progress_counts |-> progress_counts]

(* ----------------------- TaskRunner._run_process ----------------------- *)
SetReader(r, rec) == reader' = [reader EXCEPT ![r] = rec]

\* mutant: the missing-script path calls _finish(flag, 0)
run_missing_exit0(r) ==
  /\ reader[r].pc = "start"
  /\ append_log(MsgMissing)
  /\ SetReader(r, [reader[r] EXCEPT !.pc = "finish_log", !.code = Some(0),
                                    !.site = 146])
  /\ UNCHANGED <<running, progress, progress_counts, current_flag, exit_code,
                 started_at, proc, nStartCalls, nCancelCalls, resp, canceller,
                 nRuns, child, pipe>>
  /\ UNCHANGED <<progVars, cacheVars, syncVars>>

\* lines 144-147: the script is missing; log, then _finish(flag, 1)
run_missing(r) ==
  /\ reader[r].pc = "start"
  /\ append_log(MsgMissing)
  /\ SetReader(r, [reader[r] EXCEPT !.pc = "finish_log", !.code = Some(1),
                                    !.site = 146])
  /\ UNCHANGED <<running, progress, progress_counts, current_flag, exit_code,
                 started_at, proc, nStartCalls, nCancelCalls, resp, canceller,
                 nRuns, child, pipe>>
  /\ UNCHANGED <<progVars, cacheVars, syncVars>>

\* lines 149-151: the script exists; log the command line
run_command(r) ==
  /\ reader[r].pc = "start"
  /\ append_log(MsgRunning(reader[r].flag))
  /\ SetReader(r, [reader[r] EXCEPT !.pc = "popen"])
  /\ UNCHANGED <<running, progress, progress_counts, current_flag, exit_code,
                 started_at, proc, nStartCalls, nCancelCalls, resp, canceller,
                 nRuns, child, pipe>>
  /\ UNCHANGED <<progVars, cacheVars, syncVars>>

\* line 154: Popen returns with the child running
run_popen(r) ==
  /\ reader[r].pc = "popen"
  /\ child' = [child EXCEPT ![r].state = "alive"]
  /\ SetReader(r, [reader[r] EXCEPT !.pc = "set_proc"])
  /\ UNCHANGED <<taskStatus, proc, nStartCalls, nCancelCalls, resp, canceller,
                 nRuns, pipe>>
  /\ UNCHANGED <<progVars, cacheVars, syncVars>>

\* mutant: the except branch returns without reaching _finish
run_popen_raises_returns(r, message) ==
  /\ reader[r].pc = "popen"
  /\ append_log(message)
  /\ SetReader(r, [reader[r] EXCEPT !.pc = "done", !.code = Some(1)])
  /\ UNCHANGED <<running, progress, progress_counts, current_flag, exit_code,
                 started_at, proc, nStartCalls, nCancelCalls, resp, canceller,
                 nRuns, child, pipe>>
  /\ UNCHANGED <<progVars, cacheVars, syncVars>>

\* line 154 raises; lines 169-174 log it and set exit_code = 1
run_popen_raises(r, message) ==
  /\ reader[r].pc = "popen"
  /\ append_log(message)
  /\ SetReader(r, [reader[r] EXCEPT !.pc = "clear_proc", !.code = Some(1)])
  /\ UNCHANGED <<running, progress, progress_counts, current_flag, exit_code,
                 started_at, proc, nStartCalls, nCancelCalls, resp, canceller,
                 nRuns, child, pipe>>
  /\ UNCHANGED <<progVars, cacheVars, syncVars>>

\* lines 162-163
run_set_proc(r) ==
  /\ reader[r].pc = "set_proc"
  /\ proc' = Some(r)
  /\ SetReader(r, [reader[r] EXCEPT !.pc = "read"])
  /\ UNCHANGED <<taskStatus, nStartCalls, nCancelCalls, resp, canceller, nRuns,
                 child, pipe>>
  /\ UNCHANGED <<progVars, cacheVars, syncVars>>

(* ---------------------- TaskRunner._handle_output ---------------------- *)
\* lines 184-198: (pct, done, total) of a PROGRESS line, each None if unparsed
parse_pct(line) ==
  LET parts == Split(line) IN
    IF Len(parts) >= 2 THEN ParseFloat(parts[2]) ELSE None
parse_counts(line) ==
  LET parts == Split(line) IN
    IF Len(parts) >= 4
         /\ ParseInt(parts[3]) # None /\ ParseInt(parts[4]) # None
      THEN Some([done |-> ParseInt(parts[3])[1], total |-> ParseInt(parts[4])[1]])
      ELSE None
\* line 200
clamp_pct(pct) == Max(0, Min(100 * Scale, pct))

\* lines 164-166 and 182-198: take one line off the pipe, log it, parse it
run_read_line(r) ==
  /\ reader[r].pc = "read"
  /\ pipe[r] # <<>>
  /\ LET line == Head(pipe[r]) IN
       /\ append_log(line)
       /\ SetReader(r, IF StartsWithProgress(line) /\ parse_pct(line) # None
                         THEN [reader[r] EXCEPT !.pc = "update",
                                                !.line = Some(line)]
                         ELSE reader[r])
  /\ pipe' = [pipe EXCEPT ![r] = Tail(pipe[r])]
  /\ UNCHANGED <<running, progress, progress_counts, current_flag, exit_code,
                 started_at, proc, nStartCalls, nCancelCalls, resp, canceller,
                 nRuns, child>>
  /\ UNCHANGED <<progVars, cacheVars, syncVars>>

\* lines 199-204: the progress snapshot under the lock
run_update_progress(r) ==
  /\ reader[r].pc = "update"
  /\ LET line == reader[r].line[1] IN
       /\ progress' = clamp_pct(parse_pct(line)[1])
       /\ progress_counts' = IF parse_counts(line) # None
                               THEN parse_counts(line)[1]
                               ELSE progress_counts
  /\ SetReader(r, [reader[r] EXCEPT !.pc = "read", !.line = None])
  /\ UNCHANGED <<running, current_flag, exit_code, logs, started_at, proc,
                 nStartCalls, nCancelCalls, resp, canceller, nRuns, child, pipe>>
  /\ UNCHANGED <<progVars, cacheVars, syncVars>>

\* mutant: an empty pipe is taken for the end of the child, without proc.wait()
run_eof_no_wait(r) ==
  /\ reader[r].pc = "read"
  /\ pipe[r] = <<>>
  /\ SetReader(r, [reader[r] EXCEPT !.pc = "clear_proc",
                                    !.code = Some(child[r].code)])
  /\ UNCHANGED <<taskStatus, proc, nStartCalls, nCancelCalls, resp, canceller,
                 nRuns, child, pipe>>
  /\ UNCHANGED <<progVars, cacheVars, syncVars>>

\* lines 164, 167-168: end of file on the pipe, proc.wait(), the return code
run_eof(r) ==
  /\ reader[r].pc = "read"
  /\ pipe[r] = <<>>
  /\ child[r].state = "exited"
  /\ SetReader(r, [reader[r] EXCEPT !.pc = "clear_proc",
                                    !.code = Some(child[r].code)])
  /\ UNCHANGED <<taskStatus, proc, nStartCalls, nCancelCalls, resp, canceller,
                 nRuns, child, pipe>>
  /\ UNCHANGED <<progVars, cacheVars, syncVars>>

\* reading a line raises: Popen.__exit__ closes the pipe and waits for the child
run_read_raises(r) ==
  /\ reader[r].pc = "read"
  /\ child[r].written < MaxLines
  /\ pipe' = [pipe EXCEPT ![r] = <<>>]
  /\ SetReader(r, [reader[r] EXCEPT !.pc = "exit_wait"])
  /\ UNCHANGED <<taskStatus, proc, nStartCalls, nCancelCalls, resp, canceller,
                 nRuns, child>>
  /\ UNCHANGED <<progVars, cacheVars, syncVars>>

\* Popen.__exit__ returns once the child has exited; lines 172-174
run_unexpected(r) ==
  /\ reader[r].pc = "exit_wait"
  /\ child[r].state = "exited"
  /\ append_log(MsgUnexpected)
  /\ SetReader(r, [reader[r] EXCEPT !.pc = "clear_proc", !.code = Some(1)])
  /\ UNCHANGED <<running, progress, progress_counts, current_flag, exit_code,
                 started_at, proc, nStartCalls, nCancelCalls, resp, canceller,
                 nRuns, child, pipe>>
  /\ UNCHANGED <<progVars, cacheVars, syncVars>>

\* mutant: the finally block is the last thing the thread does
run_clear_proc_returns(r) ==
  /\ reader[r].pc = "clear_proc"
  /\ proc' = None
  /\ SetReader(r, [reader[r] EXCEPT !.pc = "done"])
  /\ UNCHANGED <<taskStatus, nStartCalls, nCancelCalls, resp, canceller, nRuns,
                 child, pipe>>
  /\ UNCHANGED <<progVars, cacheVars, syncVars>>

\* lines 175-179: finally, then the call of _finish
run_clear_proc(r) ==
  /\ reader[r].pc = "clear_proc"
  /\ proc' = None
  /\ SetReader(r, [reader[r] EXCEPT !.pc = "finish_log", !.site = 179])
  /\ UNCHANGED <<taskStatus, nStartCalls, nCancelCalls, resp, canceller, nRuns,
                 child, pipe>>
  /\ UNCHANGED <<progVars, cacheVars, syncVars>>

(* -------------------------- TaskRunner._finish ------------------------- *)
\* lines 207-210
finish_log(r) ==
  /\ reader[r].pc = "finish_log"
  /\ append_log(TerminalMsg(reader[r].code[1]))
  /\ SetReader(r, [reader[r] EXCEPT !.pc = "finish_set"])
  /\ UNCHANGED <<running, progress, progress_counts, current_flag, exit_code,
                 started_at, proc, nStartCalls, nCancelCalls, resp, canceller,
                 nRuns, child, pipe>>
  /\ UNCHANGED <<progVars, cacheVars, syncVars>>

\* mutant: _finish leaves the progress as it is
finish_progress_keeps(code) == progress

\* line 213
finish_progress(code) == IF code = 0 THEN 100 * Scale ELSE progress

\* lines 211-215; the thread ends
finish_set(r) ==
  /\ reader[r].pc = "finish_set"
  /\ running' = FALSE
  /\ progress' = finish_progress(reader[r].code[1])
  /\ exit_code' = reader[r].code
  /\ current_flag' = Some(reader[r].flag)
  /\ SetReader(r, [reader[r] EXCEPT !.pc = "done"])
  /\ UNCHANGED <<progress_counts, logs, started_at, proc, nStartCalls,
                 nCancelCalls, resp, canceller, nRuns, child, pipe>>
  /\ UNCHANGED <<progVars, cacheVars, syncVars>>

(* --------------------------- the child process ------------------------- *)
\* the child writes one line to its standard output
child_writes(r, line) ==
  /\ Alive(r)
  /\ reader[r].pc \in {"set_proc", "read", "update"}
  /\ child[r].written < MaxLines
  /\ pipe' = [pipe EXCEPT ![r] = Append(pipe[r], line)]
  /\ child' = [child EXCEPT ![r].written = child[r].written + 1]
  /\ UNCHANGED <<taskStatus, proc, nStartCalls, nCancelCalls, resp, canceller,
                 nRuns, reader>>
  /\ UNCHANGED <<progVars, cacheVars, syncVars>>

\* the child ends by itself: sys.exit status 0, or 1 after an error
child_exits(r, code) ==
  /\ Alive(r)
  /\ child' = [child EXCEPT ![r].state = "exited", ![r].code = code]
  /\ UNCHANGED <<taskStatus, proc, nStartCalls, nCancelCalls, resp, canceller,
                 nRuns, reader, pipe>>
  /\ UNCHANGED <<progVars, cacheVars, syncVars>>

\* SIGTERM ends the child: Popen.returncode is -15
child_terminated(r) ==
  /\ Alive(r)
  /\ child[r].sig = 1
  /\ child' = [child EXCEPT ![r].state = "exited", ![r].code = -15]
  /\ UNCHANGED <<taskStatus, proc, nStartCalls, nCancelCalls, resp, canceller,
                 nRuns, reader, pipe>>
  /\ UNCHANGED <<progVars, cacheVars, syncVars>>

(* ==================== edition-manager.py: progress ===================== *)
\* exact fractions <<numerator, denominator>>, denominator > 0, for the floats
\* of the progress arithmetic
RatLt(a, b) == a[1] * b[2] < b[1] * a[2]
RatEq(a, b) == a[1] * b[2] = b[1] * a[2]
RatSub(a, b) == <<a[1] * b[2] - b[1] * a[2], a[2] * b[2]>>
RatMax(a, b) == IF RatLt(a, b) THEN b ELSE a
RatMin(a, b) == IF RatLt(a, b) THEN a ELSE b
\* x >= y on floats.  Where the exact values differ the float comparison
\* agrees with the exact one (the gap is at least 1/(10*total), far above the
\* rounding error of a double); where they are equal the roundings of the two
\* divisions decide, and `tie` is the outcome.
FloatGe(x, y, tie) == IF RatEq(x, y) THEN tie ELSE RatLt(y, x)
\* f"{pct:.4f}": the nearest multiple of 1/Scale, as a count of them
Format4(x) == (2 * x[1] * Scale + x[2]) \div (2 * x[2])

RECURSIVE SumUpTo(_, _)
SumUpTo(f, n) == IF n = 0 THEN 0 ELSE f[n] + SumUpTo(f, n - 1)

InitProg ==
  /\ progress_total = 1
  /\ progress_done = 0
  /\ progress_last_emit = <<-1, 1>>
  /\ stdout = <<>>
  /\ reporter_pc = "init"
  /\ step_calls = [w \in Workers |-> 0]

\* _emit_progress: line 26, with the globals as they are when it prints
emit_line(pct, done, total) ==
  [pct |-> Format4(pct), done |-> done, total |-> total]

\* _progress_set_total, lines 29-35
progress_set_total(n) ==
  /\ reporter_pc = "init"
  /\ progress_total' = Max(1, n)
  /\ progress_done' = 0
  /\ progress_last_emit' = <<-1, 1>>
  /\ stdout' = Append(stdout, emit_line(<<0, 1>>, 0, Max(1, n)))
  /\ reporter_pc' = "run"
  /\ UNCHANGED step_calls
  /\ UNCHANGED <<orchVars, cacheVars, syncVars>>

\* mutant: done is not capped at total
done_after_unclamped(done, total, k) == done + k

\* line 40
done_after(done, total, k) == Min(total, done + k)
\* line 42
min_delta(total) == RatMax(<<1, 10>>, <<100, Max(1, total)>>)
\* line 43
should_emit(last, pct, total, tie) ==
  \/ RatLt(last, <<0, 1>>)
  \/ ~RatLt(pct, <<100, 1>>)
  \/ FloatGe(RatSub(pct, last), min_delta(total), tie)

\* _progress_step, lines 37-46, the whole body under _progress_lock
progress_step(w, k, tie) ==
  /\ reporter_pc = "run"
  /\ SumUpTo(step_calls, NumWorkers) < MaxSteps
  /\ step_calls' = [step_calls EXCEPT ![w] = step_calls[w] + 1]
  /\ LET done == done_after(progress_done, progress_total, k)
         pct == <<done * 100, progress_total>>
     IN /\ progress_done' = done
        /\ IF should_emit(progress_last_emit, pct, progress_total, tie)
             THEN /\ progress_last_emit' = pct
                  /\ stdout' = Append(stdout,
                       emit_line(RatMin(<<100, 1>>, RatMax(<<0, 1>>, pct)),
                                 done, progress_total))
             ELSE UNCHANGED <<progress_last_emit, stdout>>
  /\ UNCHANGED <<progress_total, reporter_pc>>
  /\ UNCHANGED <<orchVars, cacheVars, syncVars>>

\* Lines 41-43 in IEEE-754 double arithmetic for steps of one unit: the pairs
\* <<total, d>>, total from 1 to 12, for which
\*   ((d + 1) * 100) / total - (d * 100) / total >= 100 / total
\* is False although the exact values are equal.
FloatMisses ==
  {<<3, 2>>, <<6, 2>>, <<6, 4>>, <<7, 2>>, <<7, 4>>, <<7, 5>>, <<9, 3>>,
   <<9, 6>>, <<11, 2>>, <<11, 4>>, <<11, 6>>, <<11, 8>>, <<12, 2>>,
   <<12, 4>>, <<12, 8>>, <<12, 9>>, <<12, 11>>}
float_tie(total, last) ==
  <<total, last[1] \div 100>> \notin FloatMisses

\* _progress_step(1) with the comparison of line 43 as the doubles give it
progress_step_one(w) ==
  /\ progress_total <= 12
  /\ progress_step(w, 1, float_tie(progress_total, progress_last_emit))

NextProgressExact ==
  \/ \E n \in 0..MaxExactTotal : progress_set_total(n)
  \/ \E w \in Workers : progress_step_one(w)

NextProgress ==
  \/ \E n \in 0..MaxTotal : progress_set_total(n)
  \/ \E w \in Workers, k \in 1..MaxK, tie \in BOOLEAN : progress_step(w, k, tie)

(* ===================== edition-manager.py: cache ======================= *)
\* The items a library section lists.  A key the server's JSON leaves out
\* reads as the falsy default the code substitutes: 0, "" or an empty list.
OnePart == <<[Part |-> <<[size |-> 9]>>]>>
Movies ==
  {[ratingKey |-> k, title |-> "T", updatedAt |-> u, addedAt |-> 3,
    duration |-> 7, Media |-> IF u = 0 THEN <<>> ELSE OnePart] :
     k \in {"", "100", "200"}, u \in {0, 5}}

\* Python's `a or b` on integers
Or(a, b) == IF a # 0 THEN a ELSE b

\* _movie_signature, lines 72-81
movie_signature(movie) ==
  LET updated == Or(Or(movie.updatedAt, movie.addedAt), 0)
      duration == Or(movie.duration, 0)
      media == movie.Media
      parts == IF media # <<>> THEN media[1].Part ELSE <<>>
      size == IF parts # <<>> THEN parts[1].size ELSE 0
  IN ToString(updated) \o "-" \o ToString(duration) \o "-" \o ToString(size)

\* str(movie.get('ratingKey') or '')
movie_key(movie) == movie.ratingKey

\* mutant: any entry under the key counts, whatever its signature
should_skip_any_entry(movie) ==
  LET key == movie_key(movie) IN
    IF key = "" THEN FALSE ELSE key \in DOMAIN progress_cache

\* should_skip_movie, lines 84-91
should_skip_movie(movie) ==
  LET key == movie_key(movie) IN
    IF key = "" THEN FALSE
    ELSE /\ key \in DOMAIN progress_cache
         /\ progress_cache[key].signature = movie_signature(movie)

\* json.dump of the cache, line 68: the text of a JSON object, held as the
\* set of its members <<key, signature, title>>; `complete` is false for a
\* text cut short, which is what a write that was interrupted leaves behind
json_dump(d) ==
  [complete |-> TRUE,
   members |-> {<<k, d[k].signature, d[k].title>> : k \in DOMAIN d}]

\* json.loads, line 54: the dict the text denotes; raises (None) on a text
\* that is not complete
json_loads(text) ==
  IF text.complete /\ text.members = {} THEN Some(<<>>)
  ELSE IF text.complete
    THEN Some([k \in {m[1] : m \in text.members} |->
                 LET m == CHOOSE x \in text.members : x[1] = k
                 IN [signature |-> m[2], title |-> m[3]]])
    ELSE None

\* mutant: a text cut short is read as far as it goes
loaded_cache_salvages(file) ==
  IF file = None THEN <<>>
  ELSE json_loads([file[1] EXCEPT !.complete = TRUE])[1]

\* load_progress_cache, lines 52-58: the value _progress_cache is given
loaded_cache(file) ==
  IF file = None THEN <<>>
  ELSE IF json_loads(file[1]) = None THEN <<>>
  ELSE json_loads(file[1])[1]

\* a cache file that was cut short before its first member
TruncatedFile == Some([complete |-> FALSE, members |-> {}])

InitCacheFrom(files) ==
  /\ progress_cache = <<>>
  /\ progress_cache_dirty = 0
  /\ cache_file \in files
  /\ cache_pc = "boot"
  /\ nProcs = 1
  /\ marker = [w \in Workers |-> "idle"]
  /\ last_call = None

InitCache == InitCacheFrom({None})

\* load_progress_cache, lines 49-58, called once by main()
load_progress_cache ==
  /\ cache_pc = "boot"
  /\ progress_cache' = loaded_cache(cache_file)
  /\ cache_pc' = "run"
  /\ UNCHANGED <<progress_cache_dirty, cache_file, nProcs, marker, last_call>>
  /\ UNCHANGED <<orchVars, progVars, syncVars>>

\* a call of should_skip_movie
skip_call(movie) ==
  /\ cache_pc = "run"
  /\ last_call' = Some([op |-> "skip", movie |-> movie,
                         result |-> Some(should_skip_movie(movie))])
  /\ UNCHANGED <<progress_cache, progress_cache_dirty, cache_file, cache_pc,
                 nProcs, marker>>
  /\ UNCHANGED <<orchVars, progVars, syncVars>>

\* mutant: an existing entry is kept whatever its signature
mark_returns_early_if_present(movie) ==
  \/ movie_key(movie) = ""
  \/ movie_signature(movie) = ""
  \/ movie_key(movie) \in DOMAIN progress_cache

\* lines 96-101 and 103-105: mark_movie_processed returns without a change
mark_returns_early(movie) ==
  \/ movie_key(movie) = ""
  \/ movie_signature(movie) = ""
  \/ /\ movie_key(movie) \in DOMAIN progress_cache
     /\ progress_cache[movie_key(movie)].signature = movie_signature(movie)

\* dict assignment d[key] = entry
DictPut(d, key, entry) ==
  [k \in DOMAIN d \cup {key} |-> IF k = key THEN entry ELSE d[k]]

\* mark_movie_processed, lines 94-110: up to the end of the locked block
mark_upsert(w, movie) ==
  /\ cache_pc = "run"
  /\ marker[w] = "idle"
  /\ IF mark_returns_early(movie)
       THEN UNCHANGED <<progress_cache, progress_cache_dirty, marker>>
       ELSE /\ progress_cache' =
                 DictPut(progress_cache, movie_key(movie),
                         [signature |-> movie_signature(movie),
                          title |-> movie.title])
            /\ progress_cache_dirty' = progress_cache_dirty + 1
            /\ marker' = [marker EXCEPT ![w] = "save"]
  /\ last_call' = Some([op |-> "mark", movie |-> movie, result |-> None])
  /\ UNCHANGED <<cache_file, cache_pc, nProcs>>
  /\ UNCHANGED <<orchVars, progVars, syncVars>>

\* mutant: force is ignored, only the threshold makes a save write
save_at_threshold_only(force) ==
  IF progress_cache_dirty < FLUSH_THRESHOLD
    THEN UNCHANGED <<cache_file, progress_cache_dirty>>
    ELSE /\ cache_file' = Some(json_dump(progress_cache))
         /\ progress_cache_dirty' = 0

\* mutant: the threshold is compared with <=
save_above_threshold(force) ==
  IF ~force /\ progress_cache_dirty <= FLUSH_THRESHOLD
    THEN UNCHANGED <<cache_file, progress_cache_dirty>>
    ELSE /\ cache_file' = Some(json_dump(progress_cache))
         /\ progress_cache_dirty' = 0

\* save_progress_cache, lines 61-69
save_progress_cache(force) ==
  IF ~force /\ progress_cache_dirty < FLUSH_THRESHOLD
    THEN UNCHANGED <<cache_file, progress_cache_dirty>>
    ELSE /\ cache_file' = Some(json_dump(progress_cache))
         /\ progress_cache_dirty' = 0

\* mark_movie_processed, line 111
mark_save(w) ==
  /\ marker[w] = "save"
  /\ save_progress_cache(FALSE)
  /\ marker' = [marker EXCEPT ![w] = "idle"]
  /\ UNCHANGED <<progress_cache, cache_pc, nProcs, last_call>>
  /\ UNCHANGED <<orchVars, progVars, syncVars>>

\* process_movies, line 226: the pool has drained, the forced save
run_end_save ==
  /\ cache_pc = "run"
  /\ \A w \in Workers : marker[w] = "idle"
  /\ save_progress_cache(TRUE)
  /\ cache_pc' = "end"
  /\ UNCHANGED <<progress_cache, nProcs, marker, last_call>>
  /\ UNCHANGED <<orchVars, progVars, syncVars>>

\* the process ends; a later run of the script starts from the module's
\* initial globals
next_process ==
  /\ cache_pc = "end"
  /\ nProcs < MaxProcs
  /\ nProcs' = nProcs + 1
  /\ progress_cache' = <<>>
  /\ progress_cache_dirty' = 0
  /\ cache_pc' = "boot"
  /\ last_call' = None
  /\ UNCHANGED <<cache_file, marker>>
  /\ UNCHANGED <<orchVars, progVars, syncVars>>

NextCache ==
  \/ load_progress_cache
  \/ \E movie \in Movies : skip_call(movie)
  \/ \E w \in Workers, movie \in Movies : mark_upsert(w, movie)
  \/ \E w \in Workers : mark_save(w)
  \/ run_end_save
  \/ next_process


(* =================== edition-manager.py: a SyncAll run ================= *)
\* The remote library.  The summary view (GET .../all) and the detailed view
\* (GET /library/metadata/<id>) of an item are two reads of one item and
\* carry the same updatedAt, addedAt, duration and Media.
NoPartList == <<[Part |-> <<>>]>>
Item(key, title, media) ==
  [ratingKey |-> key, title |-> title, updatedAt |-> 5, addedAt |-> 3,
   duration |-> 7, Media |-> media, editionTitle |-> None, rating |-> None]
ItemA == Item("100", "A", OnePart)
ItemB == Item("200", "B", OnePart)
\* an item whose first media has an empty Part list
ItemNoParts == Item("300", "C", NoPartList)
\* an item whose ratingKey is the empty string
ItemNoKey == Item("", "D", OnePart)
\* an item without Media: movie_data['Media'][0] raises
ItemNoMedia == Item("400", "E", <<>>)
\* items as the server lists them after a SyncAll run has written a label
\* and a rating, a rating only (a label the user cleared by hand), nothing
ItemLabelled ==
  [ItemA EXCEPT !.editionTitle = Some("4K · 7.5"), !.rating = Some("7.5")]
ItemLabelOnly == [ItemB EXCEPT !.editionTitle = Some("PG")]
ItemRatedOnly == [ItemNoParts EXCEPT !.rating = Some("7.5")]
ResetLibraries ==
  {<<ItemLabelled, ItemRatedOnly, ItemLabelOnly>>,
   <<ItemLabelOnly, ItemNoParts, ItemLabelled>>,
   <<ItemNoParts>>}
\* a library one of whose items was added after the backup was written
RestoreLibraries == {<<ItemLabelled, ItemLabelOnly, ItemNoParts>>}
\* what backup_metadata writes, lines 463-466: one entry per ratingKey
Entry(id, title, edition) ==
  [id |-> id, title |-> title, editionTitle |-> edition]
BackupFiles ==
  {<<Entry("100", "A", "Extended"), Entry("200", "B", "")>>,
   <<Entry("200", "B", "PG")>>,
   <<>>}

\* an item whose file has two parts, the second the larger, and items that
\* differ from it in the timestamps
TwoParts == <<[Part |-> <<[size |-> 5], [size |-> 9]>>]>>
ItemTwoParts == Item("500", "F", TwoParts)
ItemNeverUpdated == [ItemTwoParts EXCEPT !.updatedAt = 0]
PartLibraries == {<<ItemTwoParts>>, <<ItemNeverUpdated>>}
Libraries ==
  {<<ItemA, ItemB, ItemNoMedia>>, <<ItemNoParts, ItemA, ItemNoKey>>}
SmallLibraries == {<<ItemA>>, <<ItemNoParts>>}

\* [modules] order of config.ini, line 147
ModuleOrders == {<<"Resolution">>}
PipelineOrders ==
  {<<"ContentRating", "Rating">>, <<"Rating", "ContentRating">>,
   <<"Resolution", "ContentRating">>,
   <<"Resolution", "ContentRating", "Resolution">>}

\* What a call get_<module>(...) can come to (modules/ is not part of the
\* sources; the gather phase treats every provider alike): it raises, it
\* returns a falsy value, or it returns a tag.
Raises == "!raise"
ProviderResults(module) ==
  CASE module = "Rating" -> {Raises, "", "7.5"}
    [] module = "ContentRating" -> {"", "18", "PG"}
    [] OTHER -> {Raises, "4K"}

\* the characters of the tags above
TagChars ==
  [t \in {"7.5", "18", "PG", "4K"} |->
     CASE t = "7.5" -> <<"7", ".", "5">>
       [] t = "18" -> <<"1", "8">>
       [] t = "PG" -> <<"P", "G">>
       [] OTHER -> <<"4", "K">>]
Digits == {"0", "1", "2", "3", "4", "5", "6", "7", "8", "9"}
NotDot(c) == c # "."
\* tag.replace('.', '').isdigit(), lines 397-398
is_numeric(tag) ==
  LET rest == SelectSeq(TagChars[tag], NotDot)
  IN rest # <<>> /\ \A i \in 1..Len(rest) : rest[i] \in Digits

Range(f) == {f[x] : x \in DOMAIN f}

\* mutant: the first provider that raises ends the gather phase
RECURSIVE gather_stops_at_raise(_, _)
gather_stops_at_raise(outs, n) ==
  IF n = 0 THEN <<>>
  ELSE IF \E k \in 1..n : outs[k] = Raises
    THEN gather_stops_at_raise(outs, (CHOOSE k \in 1..n : outs[k] = Raises
                                        /\ \A j \in 1..(k-1) : outs[j] # Raises) - 1)
  ELSE IF outs[n] = "" THEN gather_stops_at_raise(outs, n - 1)
  ELSE Append(gather_stops_at_raise(outs, n - 1), outs[n])

\* the loop of lines 278-361 over the first n modules, outs[k] being what the
\* k-th provider came to: the tags appended
RECURSIVE gather(_, _)
gather(outs, n) ==
  IF n = 0 THEN <<>>
  ELSE IF outs[n] \in {Raises, ""} THEN gather(outs, n - 1)
  ELSE Append(gather(outs, n - 1), outs[n])

\* mutant: the tags are joined as collected
dedup_keeps_all(tags, n) == SubSeq(tags, 1, n)

\* list(dict.fromkeys(tags)), line 385
RECURSIVE dedup(_, _)
dedup(tags, n) ==
  IF n = 0 THEN <<>>
  ELSE IF \E k \in 1..(n-1) : tags[k] = tags[n] THEN dedup(tags, n - 1)
  ELSE Append(dedup(tags, n - 1), tags[n])

\* ' · '.join(tags), line 388
RECURSIVE join(_, _)
join(tags, n) ==
  IF n = 0 THEN ""
  ELSE IF n = 1 THEN tags[1]
  ELSE join(tags, n - 1) \o " · " \o tags[n]

\* lines 372-379
clear_params ==
  [editionTitle_value |-> "", editionTitle_locked |-> 0,
   rating_value |-> Some(""), rating_locked |-> Some(0)]

\* lines 397-400: the value written as rating, if one is
rating_param(mods, tags) ==
  IF "Rating" \in Range(mods) /\ \E i \in 1..Len(tags) : is_numeric(tags[i])
    THEN Some(tags[CHOOSE i \in 1..Len(tags) :
                     /\ is_numeric(tags[i])
                     /\ \A j \in 1..(i-1) : ~is_numeric(tags[j])])
    ELSE None

\* lines 388-400
label_params(mods, tags) ==
  [editionTitle_value |-> join(tags, Len(tags)), editionTitle_locked |-> 1,
   rating_value |-> rating_param(mods, tags),
   rating_locked |-> IF rating_param(mods, tags) = None THEN None ELSE Some(1)]

\* what session.put(...) comes to: a 2xx response, a response with an error
\* status (returned like any other, lines 382 and 402 do not look at it), or
\* an exception of the transport
PutOutcomes == {"ok", "http_error", "raises"}

Items == 1..Len(library)
IdleThread == [pc |-> "idle", item |-> 0, outs |-> <<>>, tags |-> <<>>]
NoHistory ==
  [invoked |-> 0, wrote |-> FALSE, marked |-> FALSE, result |-> "none"]

confVars == <<modules, max_workers, batch_size, backup_file, flushed>>

InitSyncWith(libs, orders, backups) ==
  /\ modules \in orders
  /\ backup_file \in backups
  /\ flushed = None
  /\ max_workers \in 1..NumWorkers
  /\ batch_size \in 1..MaxBatch
  /\ library \in libs
  /\ puts = [i \in 1..Len(library) |-> <<>>]
  /\ edited = [i \in 1..Len(library) |-> FALSE]
  /\ sync_pc = "boot"
  /\ pending_movies = <<>>
  /\ chunk_i = 0
  /\ queue = <<>>
  /\ futures = [i \in 1..Len(library) |-> "none"]
  /\ yielded = {}
  /\ pool = [w \in Workers |-> IdleThread]
  /\ errlog = {}
  /\ nSyncRuns = 1
  /\ history = [r \in 1..MaxSyncRuns |-> [i \in 1..Len(library) |-> NoHistory]]
  /\ file_at_load = None

InitSyncFrom(libs, orders) == InitSyncWith(libs, orders, {<<>>})

InitSync ==
  /\ InitSyncFrom({<<ItemA>>}, ModuleOrders)
  /\ max_workers = 1
  /\ batch_size = 1

\* main(), line 503
sync_load ==
  /\ sync_pc = "boot"
  /\ progress_cache' = loaded_cache(cache_file)
  /\ file_at_load' = cache_file
  /\ sync_pc' = "scan"
  /\ UNCHANGED <<confVars, library, puts, edited, pending_movies, chunk_i,
                 queue, futures, yielded, pool, errlog, nSyncRuns, history>>
  /\ UNCHANGED <<progress_cache_dirty, cache_file, cache_pc, nProcs, marker,
                 last_call>>
  /\ UNCHANGED <<orchVars, progVars>>

\* mutant: every listed item is pending
is_pending_always(movie) == TRUE

\* mutant: an item without a label is pending whatever the cache holds
is_pending_or_unlabelled(movie) ==
  ~should_skip_movie(movie) \/ movie.editionTitle = None

\* lines 202-206: the item goes to pending_movies
is_pending(movie) == ~should_skip_movie(movie)

IsPendingAt(i) == is_pending(library[i])

\* process_movies, lines 183-214: list the library, compute pending_movies,
\* return if there are none, otherwise _progress_set_total
sync_scan ==
  /\ sync_pc = "scan"
  /\ LET pend == SelectSeq([i \in 1..Len(library) |-> i], IsPendingAt) IN
       /\ pending_movies' = pend
       /\ chunk_i' = 0
       /\ IF pend = <<>>
            THEN /\ sync_pc' = "end"
                 /\ UNCHANGED progVars
            ELSE /\ sync_pc' = "submit"
                 /\ progress_total' = Max(1, Len(pend))
                 /\ progress_done' = 0
                 /\ progress_last_emit' = <<-1, 1>>
                 /\ stdout' = Append(stdout,
                      emit_line(<<0, 1>>, 0, Max(1, Len(pend))))
                 /\ reporter_pc' = "run"
                 /\ UNCHANGED step_calls
  /\ UNCHANGED <<confVars, library, puts, edited, queue, futures, yielded,
                 pool, errlog, nSyncRuns, history, file_at_load>>
  /\ UNCHANGED <<orchVars, cacheVars>>

\* line 220: the items of the chunk that starts after the first chunk_i
Batch ==
  {pending_movies[k] :
     k \in (chunk_i + 1)..Min(chunk_i + batch_size, Len(pending_movies))}
BatchSeq ==
  SubSeq(pending_movies, chunk_i + 1,
         Min(chunk_i + batch_size, Len(pending_movies)))

\* line 221: one executor.submit per item of the chunk
sync_submit ==
  /\ sync_pc = "submit"
  /\ queue' = queue \o BatchSeq
  /\ futures' = [i \in Items |-> IF i \in Batch THEN "queued" ELSE futures[i]]
  /\ sync_pc' = "drain"
  /\ UNCHANGED <<confVars, library, puts, edited, pending_movies, chunk_i,
                 yielded, pool, errlog, nSyncRuns, history, file_at_load>>
  /\ UNCHANGED <<orchVars, progVars, cacheVars>>

\* mutant: a future that holds an exception never counts as completed
future_finished_ok_only(st) == st = "ok"

\* as_completed, line 222: the future has a result or an exception
future_finished(st) == st \in {"ok", "exc"}

\* lines 222-223: as_completed yields a future, _progress_step()
sync_yield(f, tie) ==
  /\ sync_pc = "drain"
  /\ f \in Batch \ yielded
  /\ future_finished(futures[f])
  /\ yielded' = yielded \cup {f}
  /\ LET done == done_after(progress_done, progress_total, 1)
         pct == <<done * 100, progress_total>>
     IN /\ progress_done' = done
        /\ IF should_emit(progress_last_emit, pct, progress_total, tie)
             THEN /\ progress_last_emit' = pct
                  /\ stdout' = Append(stdout,
                       emit_line(RatMin(<<100, 1>>, RatMax(<<0, 1>>, pct)),
                                 done, progress_total))
             ELSE UNCHANGED <<progress_last_emit, stdout>>
  /\ UNCHANGED <<progress_total, reporter_pc, step_calls>>
  /\ UNCHANGED <<confVars, library, puts, edited, sync_pc, pending_movies,
                 chunk_i, queue, futures, pool, errlog, nSyncRuns, history,
                 file_at_load>>
  /\ UNCHANGED <<orchVars, cacheVars>>

\* mutant: the next chunk is submitted once one unit of this one was yielded
chunk_drained_on_first == yielded \cap Batch # {}

\* the for loop of line 222 ends: every future of the chunk was yielded
chunk_drained == Batch \subseteq yielded

\* lines 224 and 219: the chunk is done, on to the next one or out of the
\* `with` block, whose exit waits for the pool
sync_chunk_done ==
  /\ sync_pc = "drain"
  /\ chunk_drained
  /\ chunk_i' = chunk_i + batch_size
  /\ sync_pc' = IF chunk_i + batch_size < Len(pending_movies)
                  THEN "submit" ELSE "save"
  /\ UNCHANGED <<confVars, library, puts, edited, pending_movies, queue,
                 futures, yielded, pool, errlog, nSyncRuns, history,
                 file_at_load>>
  /\ UNCHANGED <<orchVars, progVars, cacheVars>>

\* line 226, after ThreadPoolExecutor.__exit__ has joined the pool
sync_forced_save ==
  /\ sync_pc = "save"
  /\ queue = <<>>
  /\ \A w \in Workers : pool[w].pc = "idle"
  /\ save_progress_cache(TRUE)
  /\ sync_pc' = "end"
  /\ UNCHANGED <<confVars, library, puts, edited, pending_movies, chunk_i,
                 queue, futures, yielded, pool, errlog, nSyncRuns, history,
                 file_at_load>>
  /\ UNCHANGED <<progress_cache, cache_pc, nProcs, marker, last_call>>
  /\ UNCHANGED <<orchVars, progVars>>

\* the unit of work returns or raises: its future is set, the pool thread
\* goes back to the queue
unit_ends(w, i, result) ==
  /\ futures' = [futures EXCEPT ![i] = result]
  /\ pool' = [pool EXCEPT ![w] = IdleThread]

\* a pool thread takes the next unit off the executor's queue and enters
\* process_single_movie
worker_take(w) ==
  /\ w <= max_workers
  /\ pool[w].pc = "idle"
  /\ queue # <<>>
  /\ LET i == Head(queue) IN
       /\ queue' = Tail(queue)
       /\ futures' = [futures EXCEPT ![i] = "running"]
       /\ pool' = [pool EXCEPT ![w] = [pc |-> "gather", item |-> i,
                                       outs |-> <<>>, tags |-> <<>>]]
       /\ history' = [history EXCEPT ![nSyncRuns][i].invoked = @ + 1]
  /\ UNCHANGED <<confVars, library, puts, edited, sync_pc, pending_movies,
                 chunk_i, yielded, errlog, nSyncRuns, file_at_load>>
  /\ UNCHANGED <<orchVars, progVars, cacheVars>>

LogRecord(level, module, title) ==
  [level |-> level, module |-> module, title |-> title]

\* process_single_movie, lines 230-361: the detailed view (on an exception a
\* warning and the summary view), the media parts, the gather phase.
\* detail is how the GET of line 236 went, outs[k] what the k-th provider
\* came to.
process_gather(w, detail, outs) ==
  /\ pool[w].pc = "gather"
  /\ LET i == pool[w].item
         movie_data == library[i]
         warned == IF detail = "raises"
                     THEN {LogRecord("warning", "", library[i].title)}
                     ELSE {}
     IN
       IF movie_data.Media = <<>>
         THEN /\ unit_ends(w, i, "exc")
              /\ errlog' = errlog \cup warned
              /\ history' = [history EXCEPT ![nSyncRuns][i].result = "exc"]
       ELSE IF movie_data.Media[1].Part = <<>>
         THEN /\ unit_ends(w, i, "ok")
              /\ errlog' = errlog \cup warned
              /\ history' = [history EXCEPT ![nSyncRuns][i].result = "ok"]
       ELSE
         /\ pool' = [pool EXCEPT ![w] =
                       [pc |-> "clear", item |-> i, outs |-> outs,
                        tags |-> gather(outs, Len(modules))]]
         /\ errlog' = errlog \cup warned \cup
              {LogRecord("error", modules[k], movie_data.title) :
                 k \in {j \in 1..Len(modules) : outs[j] = Raises}}
         /\ UNCHANGED <<futures, history>>
  /\ UNCHANGED <<confVars, library, puts, edited, sync_pc, pending_movies,
                 chunk_i, queue, yielded, nSyncRuns, file_at_load>>
  /\ UNCHANGED <<orchVars, progVars, cacheVars>>

PutRecord(kind, params, outcome) ==
  [kind |-> kind, params |-> params, outcome |-> outcome]

\* update_movie, lines 368-382: the clear request
process_clear(w, outcome) ==
  /\ pool[w].pc = "clear"
  /\ LET i == pool[w].item IN
       /\ puts' = [puts EXCEPT ![i] =
                     Append(@, PutRecord("clear", clear_params, outcome))]
       /\ IF outcome = "raises"
            THEN /\ unit_ends(w, i, "exc")
                 /\ history' = [history EXCEPT ![nSyncRuns][i].result = "exc"]
            ELSE /\ pool' = [pool EXCEPT ![w].pc = "label"]
                 /\ UNCHANGED <<futures, history>>
  /\ UNCHANGED <<confVars, library, edited, sync_pc, pending_movies, chunk_i,
                 queue, yielded, errlog, nSyncRuns, file_at_load>>
  /\ UNCHANGED <<orchVars, progVars, cacheVars>>

\* mutant: the label request goes out whatever the tags
writes_label_always(tags) == TRUE

\* line 387
writes_label(tags) == tags # <<>>

\* update_movie, lines 385-407: the tags without duplicates, the label
\* request if there are tags
process_label(w, outcome) ==
  /\ pool[w].pc = "label"
  /\ LET i == pool[w].item
         tags == dedup(pool[w].tags, Len(pool[w].tags))
     IN
       IF writes_label(tags)
         THEN /\ puts' = [puts EXCEPT ![i] =
                    Append(@, PutRecord("label", label_params(modules, tags),
                                        outcome))]
              /\ IF outcome = "raises"
                   THEN /\ unit_ends(w, i, "exc")
                        /\ history' =
                             [history EXCEPT ![nSyncRuns][i].result = "exc"]
                   ELSE /\ pool' = [pool EXCEPT ![w].pc = "mark"]
                        /\ history' =
                             [history EXCEPT ![nSyncRuns][i].wrote = TRUE]
                        /\ UNCHANGED futures
         ELSE /\ outcome = "ok"
              /\ pool' = [pool EXCEPT ![w].pc = "mark"]
              /\ history' = [history EXCEPT ![nSyncRuns][i].wrote = TRUE]
              /\ UNCHANGED <<puts, futures>>
  /\ UNCHANGED <<confVars, library, edited, sync_pc, pending_movies, chunk_i,
                 queue, yielded, errlog, nSyncRuns, file_at_load>>
  /\ UNCHANGED <<orchVars, progVars, cacheVars>>

\* line 365, mark_movie_processed lines 94-110: up to the end of the locked
\* block
process_mark(w) ==
  /\ pool[w].pc = "mark"
  /\ LET i == pool[w].item
         movie_data == library[i]
     IN
       IF mark_returns_early(movie_data)
         THEN /\ unit_ends(w, i, "ok")
              /\ history' = [history EXCEPT
                   ![nSyncRuns][i].result = "ok",
                   ![nSyncRuns][i].marked = movie_key(movie_data) # ""]
              /\ UNCHANGED <<progress_cache, progress_cache_dirty>>
         ELSE /\ progress_cache' =
                   DictPut(progress_cache, movie_key(movie_data),
                           [signature |-> movie_signature(movie_data),
                            title |-> movie_data.title])
              /\ progress_cache_dirty' = progress_cache_dirty + 1
              /\ pool' = [pool EXCEPT ![w].pc = "save"]
              /\ history' = [history EXCEPT ![nSyncRuns][i].marked = TRUE]
              /\ UNCHANGED futures
  /\ UNCHANGED <<confVars, library, puts, edited, sync_pc, pending_movies,
                 chunk_i, queue, yielded, errlog, nSyncRuns, file_at_load>>
  /\ UNCHANGED <<cache_file, cache_pc, nProcs, marker, last_call>>
  /\ UNCHANGED <<orchVars, progVars>>

\* mark_movie_processed, line 111, and the return of process_single_movie
process_save(w) ==
  /\ pool[w].pc = "save"
  /\ save_progress_cache(FALSE)
  /\ unit_ends(w, pool[w].item, "ok")
  /\ history' = [history EXCEPT ![nSyncRuns][pool[w].item].result = "ok"]
  /\ UNCHANGED <<confVars, library, puts, edited, sync_pc, pending_movies,
                 chunk_i, queue, yielded, errlog, nSyncRuns, file_at_load>>
  /\ UNCHANGED <<progress_cache, cache_pc, nProcs, marker, last_call>>
  /\ UNCHANGED <<orchVars, progVars>>

\* between two runs somebody edits an item on the server
server_edit(i) ==
  /\ sync_pc = "end"
  /\ nSyncRuns < MaxSyncRuns
  /\ Cardinality({j \in Items : edited[j]}) < MaxEdits
  /\ ~edited[i]
  /\ library' = [library EXCEPT ![i].updatedAt = @ + 1]
  /\ edited' = [edited EXCEPT ![i] = TRUE]
  /\ UNCHANGED <<confVars, puts, sync_pc, pending_movies, chunk_i, queue,
                 futures, yielded, pool, errlog, nSyncRuns, history,
                 file_at_load>>
  /\ UNCHANGED <<orchVars, progVars, cacheVars>>

\* The item is changed on the server while the script runs: its file is
\* replaced (the size of one part changes), or a metadata refresh changes one
\* of the fields _movie_signature reads.  The next fetch returns the item as
\* it is then.
ItemFields == {"updatedAt", "addedAt", "duration", "size1", "size2"}
item_edit(field) ==
  /\ ~edited[1]
  /\ Len(library[1].Media) = 1
  /\ Len(library[1].Media[1].Part) = 2
  /\ library' =
       CASE field = "updatedAt" -> [library EXCEPT ![1].updatedAt = @ + 1]
         [] field = "addedAt" -> [library EXCEPT ![1].addedAt = @ + 1]
         [] field = "duration" -> [library EXCEPT ![1].duration = @ + 1]
         [] field = "size1" ->
              [library EXCEPT ![1].Media[1].Part[1].size = @ + 1]
         [] field = "size2" ->
              [library EXCEPT ![1].Media[1].Part[2].size = @ + 1]
  /\ edited' = [edited EXCEPT ![1] = TRUE]
  /\ UNCHANGED <<confVars, puts, sync_pc, pending_movies, chunk_i, queue,
                 futures, yielded, pool, errlog, nSyncRuns, history,
                 file_at_load>>
  /\ UNCHANGED <<orchVars, progVars, cacheVars>>

\* should_skip_movie and mark_movie_processed called on the item as fetched
NextSignature ==
  \/ load_progress_cache
  \/ skip_call(library[1])
  \/ \E w \in Workers : mark_upsert(w, library[1])
  \/ \E w \in Workers : mark_save(w)
  \/ \E field \in ItemFields : item_edit(field)

(* ------------------------------ --reset -------------------------------- *)
\* _progress_set_total(n) called by the main thread of a run
set_total(n) ==
  /\ progress_total' = Max(1, n)
  /\ progress_done' = 0
  /\ progress_last_emit' = <<-1, 1>>
  /\ stdout' = Append(stdout, emit_line(<<0, 1>>, 0, Max(1, n)))
  /\ reporter_pc' = "run"
  /\ UNCHANGED step_calls

\* _progress_step() called by a thread of a run
step_one(tie) ==
  /\ LET done == done_after(progress_done, progress_total, 1)
         pct == <<done * 100, progress_total>>
     IN /\ progress_done' = done
        /\ IF should_emit(progress_last_emit, pct, progress_total, tie)
             THEN /\ progress_last_emit' = pct
                  /\ stdout' = Append(stdout,
                       emit_line(RatMin(<<100, 1>>, RatMax(<<0, 1>>, pct)),
                                 done, progress_total))
             ELSE UNCHANGED <<progress_last_emit, stdout>>
  /\ UNCHANGED <<progress_total, reporter_pc, step_calls>>

\* what the remote library holds for an item once it has carried out the
\* first n of the requests ps: a request answered 2xx sets the fields it
\* names, an empty value removes the field
RECURSIVE server_after(_, _, _)
server_after(ps, n, item) ==
  IF n = 0 THEN [editionTitle |-> item.editionTitle, rating |-> item.rating]
  ELSE LET before == server_after(ps, n - 1, item)
           params == ps[n].params
       IN IF ps[n].outcome # "ok" THEN before
          ELSE [editionTitle |->
                  IF params.editionTitle_value = "" THEN None
                  ELSE Some(params.editionTitle_value),
                rating |->
                  IF params.rating_value = None THEN before.rating
                  ELSE IF params.rating_value = Some("") THEN None
                  ELSE params.rating_value]
ServerNow(i) == server_after(puts[i], Len(puts[i]), library[i])

\* line 419: 'editionTitle' in m
in_to_reset(movie) == movie.editionTitle # None
InToResetAt(i) == in_to_reset(library[i])

\* line 427
reset_params ==
  [editionTitle_value |-> "", editionTitle_locked |-> 0,
   rating_value |-> None, rating_locked |-> None]

\* reset_movies, lines 410-422: list the library, to_reset,
\* _progress_set_total; an empty to_reset leaves the chunk loop at once
reset_scan ==
  /\ sync_pc = "scan"
  /\ LET to_reset == SelectSeq([i \in 1..Len(library) |-> i], InToResetAt) IN
       /\ pending_movies' = to_reset
       /\ chunk_i' = 0
       /\ set_total(Len(to_reset))
       /\ sync_pc' = IF to_reset = <<>> THEN "end" ELSE "reset_submit"
  /\ UNCHANGED <<confVars, library, puts, edited, queue, futures, yielded,
                 pool, errlog, nSyncRuns, history, file_at_load>>
  /\ UNCHANGED <<orchVars, cacheVars>>

\* lines 433-435: the chunk to_reset[i:i+batch_size] is submitted
reset_submit ==
  /\ sync_pc = "reset_submit"
  /\ queue' = queue \o BatchSeq
  /\ futures' = [i \in Items |-> IF i \in Batch THEN "queued" ELSE futures[i]]
  /\ sync_pc' = "reset_drain"
  /\ UNCHANGED <<confVars, library, puts, edited, pending_movies, chunk_i,
                 yielded, pool, errlog, nSyncRuns, history, file_at_load>>
  /\ UNCHANGED <<orchVars, progVars, cacheVars>>

\* lines 436-437: as_completed yields a future, _progress_step()
reset_yield(f, tie) ==
  /\ sync_pc = "reset_drain"
  /\ f \in Batch \ yielded
  /\ future_finished(futures[f])
  /\ yielded' = yielded \cup {f}
  /\ step_one(tie)
  /\ UNCHANGED <<confVars, library, puts, edited, sync_pc, pending_movies,
                 chunk_i, queue, futures, pool, errlog, nSyncRuns, history,
                 file_at_load>>
  /\ UNCHANGED <<orchVars, cacheVars>>

\* lines 438 and 433: the chunk is done, on to the next one or out of the
\* `with` block
reset_chunk_done ==
  /\ sync_pc = "reset_drain"
  /\ chunk_drained
  /\ chunk_i' = chunk_i + batch_size
  /\ sync_pc' = IF chunk_i + batch_size < Len(pending_movies)
                  THEN "reset_submit" ELSE "end"
  /\ UNCHANGED <<confVars, library, puts, edited, pending_movies, queue,
                 futures, yielded, pool, errlog, nSyncRuns, history,
                 file_at_load>>
  /\ UNCHANGED <<orchVars, progVars, cacheVars>>

\* a thread of the pool of line 432 takes the next unit and enters _reset_one
reset_take(w) ==
  /\ sync_pc = "reset_drain"
  /\ w <= max_workers
  /\ pool[w].pc = "idle"
  /\ queue # <<>>
  /\ LET i == Head(queue) IN
       /\ queue' = Tail(queue)
       /\ futures' = [futures EXCEPT ![i] = "running"]
       /\ pool' = [pool EXCEPT ![w] = [IdleThread EXCEPT !.pc = "reset_put",
                                                        !.item = i]]
  /\ UNCHANGED <<confVars, library, puts, edited, sync_pc, pending_movies,
                 chunk_i, yielded, errlog, nSyncRuns, history, file_at_load>>
  /\ UNCHANGED <<orchVars, progVars, cacheVars>>

\* _reset_one, lines 425-430
reset_put(w, outcome) ==
  /\ pool[w].pc = "reset_put"
  /\ LET i == pool[w].item IN
       /\ puts' = [puts EXCEPT ![i] =
                     Append(@, PutRecord("reset", reset_params, outcome))]
       /\ unit_ends(w, i, IF outcome = "raises" THEN "exc" ELSE "ok")
  /\ UNCHANGED <<confVars, library, edited, sync_pc, pending_movies, chunk_i,
                 queue, yielded, errlog, nSyncRuns, history, file_at_load>>
  /\ UNCHANGED <<orchVars, progVars, cacheVars>>

NextReset ==
  \/ sync_load
  \/ reset_scan
  \/ reset_submit
  \/ \E f \in Items, tie \in BOOLEAN : reset_yield(f, tie)
  \/ reset_chunk_done
  \/ \E w \in Workers : reset_take(w)
  \/ \E w \in Workers, outcome \in PutOutcomes : reset_put(w, outcome)

(* ----------------------------- --restore ------------------------------- *)
\* the pool of line 493
RESTORE_WORKERS == 8

\* the library item a PUT to /library/metadata/<id> goes to
ItemOf(id) == CHOOSE i \in Items : library[i].ratingKey = id
EntryOf(i) ==
  backup_file[CHOOSE k \in 1..Len(backup_file) : ItemOf(backup_file[k].id) = i]

\* mutant: the label is locked whatever it is
restore_locked_always(edition) == 1

\* line 487: 1 if edition else 0
restore_locked(edition) == IF edition # "" THEN 1 ELSE 0

\* lines 486-487
restore_params(meta) ==
  [editionTitle_value |-> meta.editionTitle,
   editionTitle_locked |-> restore_locked(meta.editionTitle),
   rating_value |-> None, rating_locked |-> None]

\* restore_metadata, lines 477-482: the file is read, its entries are the
\* units, _progress_set_total
restore_read ==
  /\ sync_pc = "scan"
  /\ pending_movies' = [k \in 1..Len(backup_file) |-> ItemOf(backup_file[k].id)]
  /\ chunk_i' = 0
  /\ set_total(Len(backup_file))
  /\ sync_pc' = "restore_submit"
  /\ UNCHANGED <<confVars, library, puts, edited, queue, futures, yielded,
                 pool, errlog, nSyncRuns, history, file_at_load>>
  /\ UNCHANGED <<orchVars, cacheVars>>

\* line 494: every entry is submitted
restore_submit ==
  /\ sync_pc = "restore_submit"
  /\ queue' = queue \o pending_movies
  /\ futures' = [i \in Items |->
                   IF i \in Range(pending_movies) THEN "queued" ELSE futures[i]]
  /\ sync_pc' = "restore_drain"
  /\ UNCHANGED <<confVars, library, puts, edited, pending_movies, chunk_i,
                 yielded, pool, errlog, nSyncRuns, history, file_at_load>>
  /\ UNCHANGED <<orchVars, progVars, cacheVars>>

\* lines 495-496: as_completed yields a future, nothing is done with it
restore_yield(f) ==
  /\ sync_pc = "restore_drain"
  /\ f \in Range(pending_movies) \ yielded
  /\ future_finished(futures[f])
  /\ yielded' = yielded \cup {f}
  /\ UNCHANGED <<confVars, library, puts, edited, sync_pc, pending_movies,
                 chunk_i, queue, futures, pool, errlog, nSyncRuns, history,
                 file_at_load>>
  /\ UNCHANGED <<orchVars, progVars, cacheVars>>

\* the loop of line 495 ends, out of the `with` block, line 498
restore_done ==
  /\ sync_pc = "restore_drain"
  /\ Range(pending_movies) \subseteq yielded
  /\ sync_pc' = "end"
  /\ UNCHANGED <<confVars, library, puts, edited, pending_movies, chunk_i,
                 queue, futures, yielded, pool, errlog, nSyncRuns, history,
                 file_at_load>>
  /\ UNCHANGED <<orchVars, progVars, cacheVars>>

\* a thread of the pool of line 493 takes the next unit and enters
\* _restore_one
restore_take(w) ==
  /\ sync_pc = "restore_drain"
  /\ w <= RESTORE_WORKERS
  /\ pool[w].pc = "idle"
  /\ queue # <<>>
  /\ LET i == Head(queue) IN
       /\ queue' = Tail(queue)
       /\ futures' = [futures EXCEPT ![i] = "running"]
       /\ pool' = [pool EXCEPT ![w] = [IdleThread EXCEPT !.pc = "restore_put",
                                                        !.item = i]]
  /\ UNCHANGED <<confVars, library, puts, edited, sync_pc, pending_movies,
                 chunk_i, yielded, errlog, nSyncRuns, history, file_at_load>>
  /\ UNCHANGED <<orchVars, progVars, cacheVars>>

\* _restore_one, lines 485-489
restore_put(w, outcome) ==
  /\ pool[w].pc = "restore_put"
  /\ LET i == pool[w].item IN
       /\ puts' = [puts EXCEPT ![i] =
                     Append(@, PutRecord("restore", restore_params(EntryOf(i)),
                                         outcome))]
       /\ IF outcome = "raises"
            THEN unit_ends(w, i, "exc")
            ELSE /\ pool' = [pool EXCEPT ![w].pc = "restore_step"]
                 /\ UNCHANGED futures
  /\ UNCHANGED <<confVars, library, edited, sync_pc, pending_movies, chunk_i,
                 queue, yielded, errlog, nSyncRuns, history, file_at_load>>
  /\ UNCHANGED <<orchVars, progVars, cacheVars>>

\* _restore_one, line 490, and its return
restore_step(w, tie) ==
  /\ pool[w].pc = "restore_step"
  /\ step_one(tie)
  /\ unit_ends(w, pool[w].item, "ok")
  /\ UNCHANGED <<confVars, library, puts, edited, sync_pc, pending_movies,
                 chunk_i, queue, yielded, errlog, nSyncRuns, history,
                 file_at_load>>
  /\ UNCHANGED <<orchVars, cacheVars>>

NextRestore ==
  \/ sync_load
  \/ restore_read
  \/ restore_submit
  \/ \E f \in Items : restore_yield(f)
  \/ restore_done
  \/ \E w \in Workers : restore_take(w)
  \/ \E w \in Workers, outcome \in PutOutcomes : restore_put(w, outcome)
  \/ \E w \in Workers, tie \in BOOLEAN : restore_step(w, tie)

(* ------------------- the child is terminated mid-run ------------------- *)
\* lines 63-66: does this call write at all
save_writes(force) == force \/ progress_cache_dirty >= FLUSH_THRESHOLD

\* line 66: open(..., 'w') truncates the cache file
save_truncates(force) ==
  /\ save_writes(force)
  /\ cache_file' = TruncatedFile

\* mark_movie_processed, lines 94-110, which waits for _cache_lock while a
\* save is writing
killable_mark(w, movie) ==
  /\ \A v \in Workers : marker[v] # "dump"
  /\ mark_upsert(w, movie)

\* mark_movie_processed, line 111, up to the open of line 66 or the return
\* of line 65
killable_mark_open(w) ==
  /\ cache_pc = "run"
  /\ marker[w] = "save"
  /\ \A v \in Workers : marker[v] # "dump"
  /\ IF save_writes(FALSE)
       THEN /\ save_truncates(FALSE)
            /\ marker' = [marker EXCEPT ![w] = "dump"]
       ELSE /\ marker' = [marker EXCEPT ![w] = "idle"]
            /\ UNCHANGED cache_file
  /\ UNCHANGED <<progress_cache, progress_cache_dirty, cache_pc, nProcs,
                 last_call>>
  /\ UNCHANGED <<orchVars, progVars>>
  /\ UNCHANGED <<modules, max_workers, batch_size, backup_file, flushed,
                 library, puts, edited, sync_pc, pending_movies, chunk_i,
                 queue, futures, yielded, pool, errlog, nSyncRuns, history,
                 file_at_load>>

\* lines 67-69: json.dump and the close of the file, the counter reset
save_dump ==
  /\ cache_file' = Some(json_dump(progress_cache))
  /\ flushed' = Some(json_dump(progress_cache))
  /\ progress_cache_dirty' = 0

killable_mark_dump(w) ==
  /\ cache_pc = "run"
  /\ marker[w] = "dump"
  /\ save_dump
  /\ marker' = [marker EXCEPT ![w] = "idle"]
  /\ UNCHANGED <<progress_cache, cache_pc, nProcs, last_call>>
  /\ UNCHANGED <<orchVars, progVars>>
  /\ UNCHANGED <<modules, max_workers, batch_size, backup_file, library, puts,
                 edited, sync_pc, pending_movies, chunk_i, queue, futures,
                 yielded, pool, errlog, nSyncRuns, history, file_at_load>>

\* process_movies, line 226: the forced save, up to the open of line 66
killable_end_open ==
  /\ cache_pc = "run"
  /\ \A w \in Workers : marker[w] = "idle"
  /\ save_truncates(TRUE)
  /\ cache_pc' = "end_dump"
  /\ UNCHANGED <<progress_cache, progress_cache_dirty, nProcs, marker,
                 last_call>>
  /\ UNCHANGED <<orchVars, progVars, syncVars>>

killable_end_dump ==
  /\ cache_pc = "end_dump"
  /\ save_dump
  /\ cache_pc' = "end"
  /\ UNCHANGED <<progress_cache, nProcs, marker, last_call>>
  /\ UNCHANGED <<orchVars, progVars>>
  /\ UNCHANGED <<modules, max_workers, batch_size, backup_file, library, puts,
                 edited, sync_pc, pending_movies, chunk_i, queue, futures,
                 yielded, pool, errlog, nSyncRuns, history, file_at_load>>

\* proc.terminate() of the orchestrator (edition-manager-gui.py, line 126):
\* SIGTERM, for which the script installs no handler, ends the process where
\* it is; its threads and its memory are gone, the file stays as it is
child_killed ==
  /\ cache_pc \in {"boot", "run", "end_dump"}
  /\ cache_pc' = "killed"
  /\ marker' = [w \in Workers |-> "idle"]
  /\ UNCHANGED <<progress_cache, progress_cache_dirty, cache_file, nProcs,
                 last_call>>
  /\ UNCHANGED <<orchVars, progVars, syncVars>>

\* the script is started again after a run that ended or was terminated
run_again ==
  /\ cache_pc \in {"end", "killed"}
  /\ nProcs < MaxProcs
  /\ nProcs' = nProcs + 1
  /\ progress_cache' = <<>>
  /\ progress_cache_dirty' = 0
  /\ cache_pc' = "boot"
  /\ last_call' = None
  /\ UNCHANGED <<cache_file, marker>>
  /\ UNCHANGED <<orchVars, progVars, syncVars>>

NextKillable ==
  \/ load_progress_cache
  \/ \E w \in Workers, movie \in Movies : killable_mark(w, movie)
  \/ \E w \in Workers : killable_mark_open(w)
  \/ \E w \in Workers : killable_mark_dump(w)
  \/ killable_end_open
  \/ killable_end_dump
  \/ child_killed
  \/ run_again

\* between two runs the cache file is cut short
file_truncated ==
  /\ sync_pc = "end"
  /\ nSyncRuns < MaxSyncRuns
  /\ cache_file # None
  /\ cache_file[1].complete
  /\ cache_file' = Some([cache_file[1] EXCEPT !.complete = FALSE])
  /\ UNCHANGED <<progress_cache, progress_cache_dirty, cache_pc, nProcs,
                 marker, last_call>>
  /\ UNCHANGED <<orchVars, progVars, syncVars>>

\* the script is run again with --all: a new process, the module globals of
\* lines 16-23 as the module sets them
sync_next_run ==
  /\ sync_pc = "end"
  /\ nSyncRuns < MaxSyncRuns
  /\ nSyncRuns' = nSyncRuns + 1
  /\ sync_pc' = "boot"
  /\ progress_cache' = <<>>
  /\ progress_cache_dirty' = 0
  /\ progress_total' = 1
  /\ progress_done' = 0
  /\ progress_last_emit' = <<-1, 1>>
  /\ stdout' = <<>>
  /\ reporter_pc' = "init"
  /\ puts' = [i \in Items |-> <<>>]
  /\ pending_movies' = <<>>
  /\ chunk_i' = 0
  /\ futures' = [i \in Items |-> "none"]
  /\ yielded' = {}
  /\ errlog' = {}
  /\ file_at_load' = None
  /\ UNCHANGED <<confVars, library, edited, queue, pool, history>>
  /\ UNCHANGED <<cache_file, cache_pc, nProcs, marker, last_call, step_calls>>
  /\ UNCHANGED orchVars

MainStep ==
  \/ sync_load
  \/ sync_scan
  \/ sync_submit
  \/ \E f \in Items, tie \in BOOLEAN : sync_yield(f, tie)
  \/ sync_chunk_done
  \/ sync_forced_save

\* the pool threads, the requests they make answered from the given sets
WorkerStepOver(details, outcomes) ==
  \E w \in Workers :
    \/ worker_take(w)
    \/ \E detail \in details,
          outs \in [1..Len(modules) -> UNION {ProviderResults(m) : m \in Range(modules)}] :
         /\ \A k \in 1..Len(modules) : outs[k] \in ProviderResults(modules[k])
         /\ process_gather(w, detail, outs)
    \/ \E outcome \in outcomes : process_clear(w, outcome)
    \/ \E outcome \in outcomes : process_label(w, outcome)
    \/ process_mark(w)
    \/ process_save(w)

BetweenRuns ==
  \/ \E i \in Items : server_edit(i)
  \/ file_truncated
  \/ sync_next_run

\* several items, several runs: the detailed view is there, a PUT is
\* answered 2xx or the transport raises
SyncWorkerStep == WorkerStepOver({"ok"}, {"ok", "raises"})
NextSync ==
  \/ MainStep
  \/ SyncWorkerStep
  \/ BetweenRuns

(* ------------------------------ --backup ------------------------------- *)
\* line 465: movie.get('editionTitle', '')
backup_edition(movie) ==
  IF movie.editionTitle = None THEN "" ELSE movie.editionTitle[1]

\* mutant: the title is saved as the label
backup_entry_title_twice(movie, now) ==
  Entry(movie.ratingKey, movie.title, movie.title)

\* lines 463-466: the entry of one listed item, `now` being the fields the
\* server holds for it
backup_entry(movie, now) ==
  Entry(movie.ratingKey, movie.title, backup_edition(now))

\* backup_metadata, lines 456-473: list the library, write the file
backup_write ==
  /\ sync_pc = "scan"
  /\ backup_file' =
       [i \in 1..Len(library) |-> backup_entry(library[i], ServerNow(i))]
  /\ sync_pc' = "end"
  /\ UNCHANGED <<modules, max_workers, batch_size, flushed, library, puts,
                 edited, pending_movies, chunk_i, queue, futures, yielded,
                 pool, errlog, nSyncRuns, history, file_at_load>>
  /\ UNCHANGED <<orchVars, progVars, cacheVars>>

\* the cache file an earlier --all run has left when it marked the items S
\* of the library
CacheFileAfter(lib, S) ==
  Some(json_dump(
    [k \in {lib[i].ratingKey : i \in S} |->
       LET item == lib[CHOOSE i \in S : lib[i].ratingKey = k]
       IN [signature |-> movie_signature(item), title |-> item.title]]))
EarlierCacheFiles ==
  {CacheFileAfter(lib, S) :
     lib \in RestoreLibraries, S \in {{1}, {1, 2, 3}}}

\* one run with --reset, --restore or --backup, then one with --all; an item
\* may be edited on the server in between
\* the flag of the first run and the flag of the second
FirstRunScans ==
  /\ nSyncRuns = 1
  /\ (reset_scan \/ restore_read \/ backup_write)
SecondRunScans ==
  /\ nSyncRuns = 2
  /\ sync_scan
\* the pool threads of process_movies
SecondRunWorks ==
  /\ nSyncRuns = 2
  /\ SyncWorkerStep
NextMaintenance ==
  \/ sync_load
  \/ FirstRunScans
  \/ reset_submit
  \/ \E f \in Items, tie \in BOOLEAN : reset_yield(f, tie)
  \/ reset_chunk_done
  \/ \E w \in Workers : reset_take(w)
  \/ \E w \in Workers, outcome \in PutOutcomes : reset_put(w, outcome)
  \/ restore_submit
  \/ \E f \in Items : restore_yield(f)
  \/ restore_done
  \/ \E w \in Workers : restore_take(w)
  \/ \E w \in Workers, outcome \in PutOutcomes : restore_put(w, outcome)
  \/ \E w \in Workers, tie \in BOOLEAN : restore_step(w, tie)
  \/ SecondRunScans
  \/ sync_submit
  \/ \E f \in Items, tie \in BOOLEAN : sync_yield(f, tie)
  \/ sync_chunk_done
  \/ sync_forced_save
  \/ SecondRunWorks
  \/ \E i \in Items : server_edit(i)
  \/ sync_next_run

\* one run with --backup, then one with --restore
BackupRunScans ==
  /\ nSyncRuns = 1
  /\ backup_write
RestoreRunScans ==
  /\ nSyncRuns = 2
  /\ restore_read
NextRoundTrip ==
  \/ sync_load
  \/ BackupRunScans
  \/ RestoreRunScans
  \/ restore_submit
  \/ \E f \in Items : restore_yield(f)
  \/ restore_done
  \/ \E w \in Workers : restore_take(w)
  \/ \E w \in Workers, outcome \in PutOutcomes : restore_put(w, outcome)
  \/ \E w \in Workers, tie \in BOOLEAN : restore_step(w, tie)
  \/ sync_next_run

\* one item, one run: every answer
NextPipeline ==
  \/ MainStep
  \/ WorkerStepOver({"ok", "raises"}, PutOutcomes)


(* ----------------------------- specification --------------------------- *)
ApiStep ==
  \/ \E a \in RequestActions : run_action(a)
  \/ cancel_read
  \/ cancel_poll
  \/ cancel_log
  \/ cancel_terminate

\* the steps a scheduled reader thread takes by itself
ReaderStep ==
  \E r \in Runs :
    \/ run_missing(r)
    \/ run_command(r)
    \/ run_popen(r)
    \/ run_set_proc(r)
    \/ run_read_line(r)
    \/ run_update_progress(r)
    \/ run_eof(r)
    \/ run_unexpected(r)
    \/ run_clear_proc(r)
    \/ finish_log(r)
    \/ finish_set(r)

\* failures of the environment inside the reader thread
ReaderFault ==
  \E r \in Runs :
    \/ run_popen_raises(r, MsgNoPython)
    \/ run_popen_raises(r, MsgUnexpected)
    \/ run_read_raises(r)

ChildStep ==
  \E r \in Runs :
    \/ \E line \in ChildLines : child_writes(r, line)
    \/ \E code \in {0, 1} : child_exits(r, code)
    \/ child_terminated(r)

NextOrch == ApiStep \/ ReaderStep \/ ReaderFault \/ ChildStep

Init == InitOrch /\ InitProg /\ InitCache /\ InitSync

Spec == Init /\ [][NextOrch]_vars

SpecProgress == Init /\ [][NextProgress]_vars

SpecCache == Init /\ [][NextCache]_vars

\* runs of the script that can be terminated at any point
SpecKillable == Init /\ [][NextKillable]_vars

\* A run whose child has already written many lines: the reader thread is
\* in its read loop, the child is alive, and the log holds the "Running"
\* line and the lines read so far, up to the capacity of the deque.
BatchLine(i) == "Processed batch " \o ToString(i) \o "/1500"
LongLog(n) ==
  [i \in 1..n |-> IF i = 1 THEN MsgRunning("--all") ELSE BatchLine(i - 1)]
InitLongRun ==
  /\ running = TRUE
  /\ progress = 0
  /\ progress_counts = [done |-> 0, total |-> 0]
  /\ current_flag = Some("--all")
  /\ exit_code = None
  /\ \E n \in (LOG_LIMIT - 2)..LOG_LIMIT : logs = LongLog(n)
  /\ proc = Some(1)
  /\ started_at = Some(1)
  /\ nStartCalls = 1
  /\ nCancelCalls = 0
  /\ resp = [handler |-> "run", code |-> 200, body |-> "started"]
  /\ canceller = [pc |-> "idle", proc |-> None]
  /\ nRuns = 1
  /\ reader = [r \in Runs |->
                 IF r = 1 THEN [NoReader EXCEPT !.pc = "read", !.flag = "--all"]
                 ELSE NoReader]
  /\ child = [r \in Runs |->
                IF r = 1 THEN [NoChild EXCEPT !.state = "alive"] ELSE NoChild]
  /\ pipe = [r \in Runs |-> <<>>]
SpecProgressExact == Init /\ [][NextProgressExact]_vars

InitLog == InitLongRun /\ InitProg /\ InitCache /\ InitSync
SpecLog == InitLog /\ [][NextOrch]_vars

\* SyncAll runs over a library of several items
InitSyncRuns ==
  /\ InitOrch
  /\ InitProg
  /\ InitCacheFrom({None})
  /\ InitSyncFrom(Libraries, ModuleOrders)
SpecSync == InitSyncRuns /\ [][NextSync]_vars
\* the main thread and the pool threads are scheduled, and every request a
\* pool thread makes is answered or raises
SpecSyncFair == SpecSync /\ WF_vars(MainStep) /\ WF_vars(SyncWorkerStep)

\* --reset over a library some of whose items have a label or a rating
InitReset ==
  /\ InitOrch
  /\ InitProg
  /\ InitCacheFrom({None})
  /\ InitSyncFrom(ResetLibraries, ModuleOrders)
SpecReset == InitReset /\ [][NextReset]_vars

\* --restore from a backup file written earlier
InitRestore ==
  /\ InitOrch
  /\ InitProg
  /\ InitCacheFrom({None})
  /\ InitSyncWith(RestoreLibraries, ModuleOrders, BackupFiles)
SpecRestore == InitRestore /\ [][NextRestore]_vars

\* a run that changes labels or saves them, after an earlier --all run
InitMaintenance ==
  /\ InitOrch
  /\ InitProg
  /\ InitCacheFrom(EarlierCacheFiles)
  /\ InitSyncWith(RestoreLibraries, ModuleOrders, BackupFiles)
SpecMaintenance == InitMaintenance /\ [][NextMaintenance]_vars

\* --backup, then --restore of the file written
InitRoundTrip ==
  /\ InitOrch
  /\ InitProg
  /\ InitCacheFrom({None})
  /\ InitSyncWith(RestoreLibraries, ModuleOrders, BackupFiles)
SpecRoundTrip == InitRoundTrip /\ [][NextRoundTrip]_vars

\* skip and mark on one item that is changed on the server
InitSignature ==
  /\ InitOrch
  /\ InitProg
  /\ InitCacheFrom({None})
  /\ InitSyncFrom(PartLibraries, ModuleOrders)
  /\ max_workers = 1
  /\ batch_size = 1
SpecSignature == InitSignature /\ [][NextSignature]_vars

\* SyncAll runs over a library of one item, with several providers
InitPipeline ==
  /\ InitOrch
  /\ InitProg
  /\ InitCacheFrom({None})
  /\ InitSyncFrom(SmallLibraries, PipelineOrders)
SpecPipeline == InitPipeline /\ [][NextPipeline]_vars

\* the scheduler runs a runnable reader thread; a child that has received
\* SIGTERM exits
ChildObeysTerm == \E r \in Runs : child_terminated(r)
SpecCancelFair == Spec /\ WF_vars(ReaderStep) /\ WF_vars(ChildObeysTerm)

\* the scheduler runs a runnable reader thread; every child exits in the end
ChildEnds ==
  \E r \in Runs : (\E code \in {0, 1} : child_exits(r, code)) \/ child_terminated(r)
SpecExitFair == Spec /\ WF_vars(ReaderStep) /\ WF_vars(ChildEnds)

(* ======================= properties: TaskRunner ======================== *)
RespConflict == [handler |-> "run", code |-> 400,
                 body |-> "Another operation is already running."]
RespStarted == [handler |-> "run", code |-> 200, body |-> "started"]
RespTerminating == [handler |-> "cancel", code |-> 200, body |-> "terminating"]
RespNoProcess == [handler |-> "cancel", code |-> 400,
                  body |-> "No running process to cancel."]
InSeq(x, q) == \E i \in 1..Len(q) : q[i] = x
LiveReaders == {r \in Runs : reader[r].pc \notin {"none", "done"}}
LiveChildren == {r \in Runs : Alive(r)}
HasTerminalLine == \E i \in 1..Len(logs) :
                     logs[i] \in {MsgOk, MsgFail(1), MsgFail(-15)}
\* a start made while no run is Running is accepted
StartAcceptedWhenIdle ==
  \A a \in DOMAIN ACTION_FLAGS \cap RequestActions :
    (run_action(a) /\ ~running) =>
       /\ running'
       /\ resp' = RespStarted
       /\ nRuns' = nRuns + 1
       /\ reader'[nRuns + 1].pc = "start"

\* C1: a start made while a run is Running is answered with the conflict
\* error and changes nothing: the TaskRunner fields (running, operation,
\* progress, counts, exit code, logs, startedAt) keep their values, no reader
\* thread and no child process is added, and nothing is kept for later.
C1_StartWhileRunningRejected ==
  [][\A a \in DOMAIN ACTION_FLAGS \cap RequestActions :
       (run_action(a) /\ running) =>
          /\ resp' = RespConflict
          /\ UNCHANGED <<taskStatus, proc, nRuns, reader, child, pipe,
                         canceller>>]_vars
C1_Witness ==
  /\ resp = RespConflict
  /\ running
  /\ LiveChildren # {}
  /\ Len(logs) >= 2

\* C2: at any time at most one run is Running: at most one reader thread is
\* live and at most one child process is alive, a reader is live exactly
\* while running is set, and the live child belongs to the live reader.
C2_SingleFlight ==
  /\ Cardinality(LiveReaders) <= 1
  /\ Cardinality(LiveChildren) <= 1
  /\ running <=> LiveReaders # {}
  /\ LiveChildren \subseteq LiveReaders
C2_Witness ==
  /\ resp = RespConflict
  /\ LiveReaders = {1}
  /\ LiveChildren = {1}
  /\ canceller.pc = "terminate"

\* C3: cancel() returns true exactly when a spawned child is alive at the
\* time of the call; then it logs the termination request and signals that
\* child once; otherwise it returns false, signals nothing and logs nothing;
\* it never clears running nor records an exit code.
C3_CancelTrueIffChildAlive ==
  [][/\ (cancel_read /\ proc = None) => LiveChildren = {}
     /\ cancel_poll => (canceller'.pc = "log" <=> LiveChildren # {})
     /\ (cancel_read \/ cancel_poll) /\ resp' = RespNoProcess
          => UNCHANGED <<logs, child>>
     /\ cancel_log => logs' = Append(logs, MsgTerminate)
     /\ cancel_terminate =>
          /\ resp' = RespTerminating
          /\ child'[canceller.proc[1]].sig = 1
     /\ (cancel_read \/ cancel_poll \/ cancel_log \/ cancel_terminate)
          => UNCHANGED <<running, exit_code>>]_vars

\* C4: once cancel() has signalled a live child, and that child exits on the
\* signal, the run ends: running is false, an exit code is recorded and the
\* terminal line is in the log; a start made while idle is then accepted.
Cancelled(r) == child[r].sig = 1 /\ reader[r].pc # "done"
Ended == ~running /\ exit_code # None /\ HasTerminalLine
C4_CancelledRunEnds ==
  /\ \A r \in Runs : Cancelled(r) ~> Ended
  /\ [][StartAcceptedWhenIdle]_vars
C4_Witness ==
  /\ child[1].sig = 1
  /\ reader[1].pc = "done"
  /\ exit_code = Some(-15)
  /\ InSeq(MsgTerminate, logs)
  /\ InSeq(MsgFail(-15), logs)
  /\ ~running

\* C5: every run that is Running returns to Idle with an exit code recorded,
\* given that its child exits: on the normal path, on the missing-script
\* path, and when spawning or reading raises (exit code 1).
C5_RunningLeadsToIdle == running ~> (~running /\ exit_code # None)
C5_Witness ==
  /\ ~running
  /\ exit_code = Some(1)
  /\ InSeq(MsgUnexpected, logs)
  /\ child[1].state = "exited"

\* the percentage of the last PROGRESS line of the log that parsed
RECURSIVE LastParsedPct(_)
LastParsedPct(q) ==
  IF q = <<>> THEN 0
  ELSE LET line == q[Len(q)] IN
         IF StartsWithProgress(line) /\ parse_pct(line) # None
           THEN clamp_pct(parse_pct(line)[1])
           ELSE LastParsedPct(SubSeq(q, 1, Len(q) - 1))

\* C6: after a run has ended the snapshot reports progress 100 if the exit
\* code is 0, whatever the child emitted last (nothing at all included), and
\* otherwise the last percentage parsed from the child's output.
C6_ProgressAtEnd ==
  (~status.running /\ status.exit_code # None) =>
     status.progress = IF status.exit_code = Some(0)
                         THEN 100 * Scale
                         ELSE LastParsedPct(status.logs)
C6_Witness ==
  /\ ~status.running
  /\ status.exit_code = Some(0)
  /\ status.progress = 100 * Scale
  /\ LastParsedPct(status.logs) = 50 * Scale

\* C7: a run that finds the script missing logs the error and ends with exit
\* code 1 and running = false, its child process is never spawned, and a
\* start made afterwards is accepted.
C7_MissingScript ==
  /\ [](\A r \in Runs :
          reader[r].site = 146 =>
            /\ child[r].state = "none"
            /\ InSeq(MsgMissing, logs) \/ nRuns > r
            /\ (reader[r].pc = "done" /\ nRuns = r) =>
                 /\ ~running
                 /\ exit_code = Some(1)
                 /\ InSeq(MsgFail(1), logs))
  /\ [][StartAcceptedWhenIdle]_vars
C7_Witness ==
  /\ reader[1].site = 146
  /\ reader[1].pc = "done"
  /\ child[1].state = "none"
  /\ reader[2].pc = "popen"
(* ===================== properties: progress lines ====================== *)
\* C8: in one run the percentages of the PROGRESS lines never decrease, each
\* lies in [0, 100], no line's done exceeds its total, and once done has
\* reached total the last line written carries 100 percent and done = total.
C8_ProgressLines ==
  /\ \A i \in 1..Len(stdout) :
       /\ 0 <= stdout[i].pct
       /\ stdout[i].pct <= 100 * Scale
       /\ stdout[i].done <= stdout[i].total
  /\ \A i, j \in 1..Len(stdout) : i < j => stdout[i].pct <= stdout[j].pct
  /\ (reporter_pc = "run" /\ progress_done = progress_total) =>
       /\ stdout[Len(stdout)].pct = 100 * Scale
       /\ stdout[Len(stdout)].done = progress_total
C8_Witness ==
  /\ progress_total = 3
  /\ progress_done = progress_total
  /\ step_calls[1] >= 1
  /\ step_calls[2] >= 1
  /\ Len(stdout) = 3
  /\ stdout[2].pct = 333333

(* ======================= properties: change cache ====================== *)
\* the cache holds an entry for the item's id with the item's signature
HoldsEntry(movie) ==
  /\ movie_key(movie) \in DOMAIN progress_cache
  /\ progress_cache[movie_key(movie)].signature = movie_signature(movie)

\* C9: should_skip_movie returns true exactly when the cache holds an entry
\* for the item's id whose signature equals the item's current signature,
\* and a call of it changes neither the cache, the dirty counter nor the file.
C9_SkipIffEntryMatches ==
  /\ [](\A m \in Movies : should_skip_movie(m) <=> HoldsEntry(m))
  /\ [][\A m \in Movies :
          skip_call(m) =>
            /\ last_call'[1].result = Some(HoldsEntry(m))
            /\ UNCHANGED <<progress_cache, progress_cache_dirty, cache_file>>]_vars
C9_Witness ==
  /\ last_call # None
  /\ last_call[1].op = "skip"
  /\ last_call[1].result = Some(TRUE)
  /\ \E m \in Movies : movie_key(m) \in DOMAIN progress_cache /\ ~HoldsEntry(m)
  /\ \E m \in Movies : movie_key(m) \notin DOMAIN progress_cache /\ movie_key(m) # ""

MarkedLast == last_call # None /\ last_call[1].op = "mark"
SecondMarkIsNoOp ==
  \A w \in Workers, m \in Movies :
    (mark_upsert(w, m) /\ HoldsEntry(m)) =>
       UNCHANGED <<progress_cache, progress_cache_dirty, cache_file, marker>>

\* C10 as stated: right after mark_movie_processed(item), for every item,
\* should_skip_movie(item) is true; and marking an item whose signature is
\* already stored changes neither the cache nor the dirty counter.
C10_MarkThenSkipEveryItem ==
  /\ [](MarkedLast => should_skip_movie(last_call[1].movie))
  /\ [][SecondMarkIsNoOp]_vars

\* C10 amended: the same for every item whose id is not empty.
C10_MarkThenSkip ==
  /\ [](MarkedLast /\ movie_key(last_call[1].movie) # ""
          => should_skip_movie(last_call[1].movie))
  /\ [][SecondMarkIsNoOp]_vars
C10_Witness ==
  /\ MarkedLast
  /\ movie_key(last_call[1].movie) = "100"
  /\ should_skip_movie(last_call[1].movie)
  /\ progress_cache_dirty = 2
  /\ \A w \in Workers : marker[w] = "idle"
(* ===================== properties: the SyncAll run ===================== *)
\* the run found a cache file and could parse it
LoadedKeptFile == file_at_load # None /\ file_at_load[1].complete
\* the cache file the run found had not been cut short
FileNotCut == file_at_load = None \/ file_at_load[1].complete
\* the item is not in the pending set, process was not invoked for it and
\* nothing was written to it, in this run
SkippedInThisRun(i) ==
  /\ \A k \in 1..Len(pending_movies) : pending_movies[k] # i
  /\ history[nSyncRuns][i].invoked = 0
  /\ puts[i] = <<>>
SecondRunLoaded == nSyncRuns = 2 /\ sync_pc \notin {"boot", "scan"}

\* C11 as stated: an item for which process returned without an exception in
\* a SyncAll run that ended normally is, with its attributes unchanged on the
\* server and the cache file not cut short, skipped by the next SyncAll run: not
\* pending, process not invoked, nothing written.
C11_ProcessedThenSkippedEveryItem ==
  (SecondRunLoaded /\ FileNotCut) =>
    \A i \in Items :
      (history[1][i].result = "ok" /\ ~edited[i]) => SkippedInThisRun(i)

\* C11 amended: the same for every item with a non-empty id whose write
\* phase the earlier run completed.
C11_WrittenThenSkipped ==
  (SecondRunLoaded /\ FileNotCut) =>
    \A i \in Items :
      (/\ history[1][i].result = "ok"
       /\ history[1][i].wrote
       /\ movie_key(library[i]) # ""
       /\ ~edited[i]) => SkippedInThisRun(i)
C11_Witness ==
  /\ nSyncRuns = 2
  /\ sync_pc = "end"
  /\ LoadedKeptFile
  /\ \E i \in Items :
       /\ history[1][i].wrote
       /\ history[1][i].result = "ok"
       /\ ~edited[i]
       /\ history[2][i].invoked = 0
  /\ \E j \in Items : history[1][j].result = "exc" /\ history[2][j].invoked = 1
  /\ \E j \in Items : edited[j] /\ history[2][j].invoked = 1

\* C12: when the cache file is missing or cannot be parsed, loading gives the
\* empty cache and the run goes on: every listed item is pending.
C12_UnreadableFileIsEmptyCache ==
  (sync_pc # "boot" /\ ~LoadedKeptFile) =>
    /\ sync_pc = "scan" => progress_cache = <<>>
    /\ sync_pc # "scan" =>
         pending_movies = [i \in 1..Len(library) |-> i]
C12_Witness ==
  /\ nSyncRuns = 2
  /\ sync_pc = "end"
  /\ file_at_load # None
  /\ ~file_at_load[1].complete
  /\ Cardinality(file_at_load[1].members) = 2
  /\ Len(pending_movies) = 3
  /\ progress_done = 3

Pending == Range(pending_movies)
\* C13: a unit that ends with an exception aborts neither its chunk nor the
\* run: the run reaches its end, and there every pending item was processed
\* once, done equals total equals the number of pending items, and the
\* forced save has written the file.
C13_FailureAbortsNothing ==
  /\ [](\A i \in Items : (futures[i] = "exc") => (i \in Pending))
  /\ (\E i \in Items : futures[i] = "exc") ~> (sync_pc = "end")
  /\ []((sync_pc = "end" /\ pending_movies # <<>>) =>
          /\ \A i \in Pending :
               /\ history[nSyncRuns][i].invoked = 1
               /\ futures[i] \in {"ok", "exc"}
          /\ progress_done = Len(pending_movies)
          /\ progress_total = Len(pending_movies))
  /\ [][(sync_pc = "save" /\ sync_pc' = "end") =>
          cache_file' = Some(json_dump(progress_cache))]_vars
C13_Witness ==
  /\ nSyncRuns = 1
  /\ sync_pc = "end"
  /\ batch_size = 1
  /\ futures[1] = "exc"
  /\ futures[2] = "ok"
  /\ futures[3] = "exc"
  /\ history[1][2].wrote
  /\ Len(puts[1]) = 2

\* C14: every unit that ends with an exception leaves a log record of level
\* error that names the item.
C14_FailureIsLogged ==
  \A i \in Items :
    futures[i] = "exc" =>
      LogRecord("error", "", library[i].title) \in errlog

NotHeld(i) == ~HoldsEntry(library[i])
\* C15: process is invoked once for each pending item and for no other, the
\* pending items are those the cache does not hold with their signature, and
\* _progress_step runs once for each unit as_completed yields, so that done
\* is the number of pending items when the run ends.
C15_OncePerPendingItem ==
  /\ [](\A i \in Items :
          /\ history[nSyncRuns][i].invoked <= 1
          /\ history[nSyncRuns][i].invoked = 1 => i \in Pending)
  /\ [][sync_scan =>
          pending_movies' = SelectSeq([i \in 1..Len(library) |-> i], NotHeld)]_vars
  /\ [](sync_pc \in {"submit", "drain", "save", "end"} =>
          progress_done = Cardinality(yielded))
  /\ [](sync_pc \in {"save", "end"} =>
          /\ \A i \in Pending : history[nSyncRuns][i].invoked = 1
          /\ yielded = Pending
          /\ progress_done = Len(pending_movies))
C15_Witness ==
  /\ nSyncRuns = 2
  /\ sync_pc = "end"
  /\ Len(pending_movies) = 2
  /\ progress_done = 2
  /\ \E i \in Items : i \notin Pending /\ history[1][i].invoked = 1
  /\ \E i \in Pending : futures[i] = "exc"

InFlight == {i \in Items : futures[i] \in {"queued", "running"}}
Executing == {w \in Workers : pool[w].pc # "idle"}
\* C16: no unit of a later chunk is queued or started before every unit of
\* the chunk at hand has finished; at most batch_size units are queued or
\* running, and at most min(max_workers, batch_size) execute at a time.
C16_ChunksDoNotOverlap ==
  /\ InFlight \subseteq Batch
  /\ sync_pc # "drain" => InFlight = {}
  /\ \A k \in 1..Len(pending_movies) :
       /\ k > chunk_i + batch_size => futures[pending_movies[k]] = "none"
       /\ (k > chunk_i /\ sync_pc = "submit") =>
            futures[pending_movies[k]] = "none"
       /\ k <= chunk_i => futures[pending_movies[k]] \in {"ok", "exc"}
  /\ Cardinality(InFlight) <= batch_size
  /\ Cardinality(Executing) <= Min(max_workers, batch_size)
  /\ \A w \in Executing : futures[pool[w].item] = "running"
C16_Witness ==
  /\ batch_size = 2
  /\ max_workers = 2
  /\ sync_pc = "drain"
  /\ chunk_i = 2
  /\ Len(pending_movies) = 3
  /\ futures[3] = "running"
  /\ futures[1] = "exc"

(* ==================== properties: one item's pipeline ================== *)
IsTag(o) == o \notin {Raises, ""}
\* the pool threads that have come out of update_movie
AfterWrite == {w \in Workers : pool[w].pc = "mark"}

\* C17: a provider that raises contributes no tag and stops nothing: the
\* tags are those of the providers that returned one, in the configured
\* order, the raise is logged with the provider and the item, and the item's
\* label request carries those tags.
C17_RaisingProviderAbortsNothing ==
  /\ \A w \in Workers :
       pool[w].pc \in {"clear", "label", "mark", "save"} =>
         /\ pool[w].tags = SelectSeq(pool[w].outs, IsTag)
         /\ \A k \in 1..Len(modules) :
              pool[w].outs[k] = Raises =>
                LogRecord("error", modules[k], library[pool[w].item].title)
                  \in errlog
  /\ \A w \in AfterWrite :
       LET want == SelectSeq(pool[w].outs, IsTag) IN
         want # <<>> =>
           /\ Len(puts[pool[w].item]) = 2
           /\ puts[pool[w].item][2].params.editionTitle_value =
                join(dedup(want, Len(want)), Len(dedup(want, Len(want))))
C17_Witness ==
  /\ modules = <<"Rating", "ContentRating">>
  /\ pool[1].pc = "mark"
  /\ pool[1].outs = <<Raises, "18">>
  /\ puts[1][2].params.editionTitle_value = "18"

\* C18: an item is marked in the cache exactly if its write phase succeeded,
\* that is if its clear request and its label request, where there was one,
\* were carried out by the remote library.
C18_MarkedIffWritten ==
  \A i \in Items :
    futures[i] \in {"ok", "exc"} =>
      (history[nSyncRuns][i].marked <=>
         /\ puts[i] # <<>>
         /\ \A k \in 1..Len(puts[i]) : puts[i][k].outcome = "ok")

\* what C19 says of the requests one item has received
ClearComesFirst(i) ==
  puts[i] # <<>> =>
    /\ puts[i][1] \in {PutRecord("clear", clear_params, o) : o \in PutOutcomes}
    /\ clear_params.editionTitle_value = ""
    /\ clear_params.editionTitle_locked = 0
    /\ clear_params.rating_value = Some("")
    /\ clear_params.rating_locked = Some(0)
    /\ Len(puts[i]) <= 2
    /\ Len(puts[i]) = 2 =>
         /\ puts[i][2].kind = "label"
         /\ puts[i][2].params.editionTitle_locked = 1
         /\ puts[i][1].outcome # "raises"
LabelIffTags ==
  \A w \in Workers :
    /\ pool[w].pc = "label" => Len(puts[pool[w].item]) = 1
    /\ pool[w].pc = "mark" =>
         /\ puts[pool[w].item] # <<>>
         /\ Len(puts[pool[w].item]) = 2 <=> pool[w].tags # <<>>

\* C19 as stated: for every item process has handled the clear request was
\* issued, before any label request and also without tags, and a locked label
\* request follows exactly if there is a tag.
C19_ClearThenLabelEveryItem ==
  /\ \A i \in Items : ClearComesFirst(i)
  /\ LabelIffTags
  /\ \A i \in Items : futures[i] = "ok" => puts[i] # <<>>

\* C19 amended: the same for every item whose first media has a part.
C19_ClearThenLabel ==
  /\ \A i \in Items : ClearComesFirst(i)
  /\ LabelIffTags
  /\ \A i \in Items :
       (futures[i] = "ok" /\ library[i].Media[1].Part # <<>>) =>
          puts[i] # <<>>
C19_Witness ==
  /\ pool[1].pc = "mark"
  /\ pool[1].outs = <<Raises, "">>
  /\ pool[1].tags = <<>>
  /\ Len(puts[1]) = 1
  /\ puts[1][1].kind = "clear"

\* what the provider "Rating" came to for the item the thread works on
RatingTag(w) ==
  IF \E k \in 1..Len(modules) : modules[k] = "Rating" /\ IsTag(pool[w].outs[k])
    THEN Some(pool[w].outs[CHOOSE k \in 1..Len(modules) : modules[k] = "Rating"])
    ELSE None

\* C20: a rating is written exactly if the provider "Rating" produced a tag
\* and that tag is numeric, and the value written is that tag.
C20_RatingIsRatingProvidersTag ==
  \A w \in AfterWrite :
    Len(puts[pool[w].item]) = 2 =>
      LET written == puts[pool[w].item][2].params.rating_value IN
        /\ written # None <=>
             (RatingTag(w) # None /\ is_numeric(RatingTag(w)[1]))
        /\ written # None => written = RatingTag(w)
(* ====================== properties: the log buffer ===================== *)
\* C24: the log never holds more than LOG_LIMIT lines, and every change of
\* it is either the clear of an accepted start or the append of one line at
\* the end, with the oldest line dropped if the log was full: the log is the
\* last min(LOG_LIMIT, appended) lines in the order they were appended.
C24_LogKeepsLastLines ==
  /\ [](Len(logs) <= LOG_LIMIT)
  /\ [][logs' # logs =>
          \/ logs' = <<>> /\ ~running /\ running'
          \/ /\ logs' # <<>>
             /\ logs' = (IF Len(logs) = LOG_LIMIT THEN Tail(logs) ELSE logs)
                          \o <<logs'[Len(logs')]>>]_vars
C24_Witness ==
  /\ Len(logs) = LOG_LIMIT
  /\ logs[1] = BatchLine(3)
  /\ logs[LOG_LIMIT - 3] = BatchLine(LOG_LIMIT - 1)
  /\ logs[LOG_LIMIT] = MsgFail(-15)

(* =================== properties: status and cancel ===================== *)
\* C29: no snapshot of status() holds the terminal line of the run while it
\* still says running with no exit code.
C29_TerminalLineWithFinalState ==
  ~(/\ status.running
    /\ status.exit_code = None
    /\ \E i \in 1..Len(status.logs) :
         status.logs[i] \in {MsgOk, MsgFail(1), MsgFail(-15)})

\* C30: a cancel() made while status() says running returns true, and the
\* run is then terminated.
C30_CancelWhileRunningSucceeds ==
  [][(running /\ (cancel_read \/ cancel_poll)) => resp' # RespNoProcess]_vars
(* ======================= properties: the label ========================= *)
\* the sequences holding each distinct element of tags exactly once, in the
\* order of the first occurrences in tags
FirstIndex(tags, t) ==
  CHOOSE k \in 1..Len(tags) :
    tags[k] = t /\ \A j \in 1..(k - 1) : tags[j] # t
IsFirstSeen(d, tags) ==
  /\ Range(d) = Range(tags)
  /\ \A a, b \in 1..Len(d) :
       a < b => FirstIndex(tags, d[a]) < FirstIndex(tags, d[b])
FirstSeenOf(tags) ==
  {d \in UNION {[1..m -> Range(tags)] : m \in 0..Len(tags)} :
     IsFirstSeen(d, tags)}

\* C21: the label written for an item is the collected tags in provider
\* order, each distinct tag once at the place of its first occurrence,
\* joined by " · ".
C21_LabelIsDistinctTagsJoined ==
  \A w \in AfterWrite :
    LET tags == pool[w].tags
        label == puts[pool[w].item][2].params.editionTitle_value
    IN tags # <<>> =>
         /\ Len(puts[pool[w].item]) = 2
         /\ \E d \in FirstSeenOf(tags) :
              /\ label = join(d, Len(d))
              /\ Len(d) = 1 => label = d[1]
              /\ Len(d) = 2 => label = d[1] \o " · " \o d[2]
C21_Witness ==
  /\ pool[1].pc = "mark"
  /\ pool[1].tags = <<"4K", "PG", "4K">>
  /\ puts[1][2].params.editionTitle_value = "4K · PG"
C27_EveryUnitStepEmits ==
  [][progress_done' = progress_done + 1 =>
       /\ Len(stdout') = Len(stdout) + 1
       /\ stdout'[Len(stdout')].done = progress_done']_vars
(* ==================== properties: the change signature ================= *)
\* what the signature is said to be a function of
LargestPartSize(movie) ==
  LET sizes == {movie.Media[m].Part[k].size :
                  m \in {1}, k \in 1..Len(movie.Media[1].Part)}
  IN CHOOSE x \in sizes : \A y \in sizes : y <= x
SignatureInputs(movie) ==
  <<Or(movie.updatedAt, movie.addedAt), movie.duration, LargestPartSize(movie)>>

\* C26: the signature of an unmodified item does not change, and an edit
\* that changes the item's effective timestamp, its duration or the size of
\* its largest part changes the signature.
C26_SignatureFollowsEveryEdit ==
  [][/\ library' = library =>
          movie_signature(library'[1]) = movie_signature(library[1])
     /\ SignatureInputs(library'[1]) # SignatureInputs(library[1]) =>
          movie_signature(library'[1]) # movie_signature(library[1])]_vars
(* ===================== properties: restore and reset =================== *)
\* C22: a Restore run sends one request for each entry of the backup file,
\* with the entry's editionTitle as the label and locked exactly if that is
\* not empty, and none for an id the file does not hold.
C22_RestoreWritesEachEntryOnce ==
  /\ \A i \in Items :
       /\ Len(puts[i]) <= 1
       /\ puts[i] # <<>> =>
            \E k \in 1..Len(backup_file) :
              /\ backup_file[k].id = library[i].ratingKey
              /\ puts[i][1].kind = "restore"
              /\ puts[i][1].params.editionTitle_value =
                   backup_file[k].editionTitle
              /\ puts[i][1].params.editionTitle_locked \in {0, 1}
              /\ puts[i][1].params.editionTitle_locked = 1 <=>
                   backup_file[k].editionTitle # ""
  /\ sync_pc = "end" =>
       \A k \in 1..Len(backup_file) :
         \E i \in Items :
           library[i].ratingKey = backup_file[k].id /\ Len(puts[i]) = 1
C22_Witness ==
  /\ sync_pc = "end"
  /\ Len(backup_file) = 2
  /\ puts[1] = <<PutRecord("restore",
                           [editionTitle_value |-> "Extended",
                            editionTitle_locked |-> 1,
                            rating_value |-> None, rating_locked |-> None],
                           "ok")>>
  /\ puts[2][1].params.editionTitle_value = ""
  /\ puts[2][1].params.editionTitle_locked = 0
  /\ puts[3] = <<>>

\* C23: after a Reset run all of whose requests the remote library carried
\* out, no item that had a label or a rating keeps a label or a rating.
C23_ResetClearsLabelAndRating ==
  (/\ sync_pc = "end"
   /\ \A i \in Items : \A k \in 1..Len(puts[i]) : puts[i][k].outcome = "ok") =>
    \A i \in Items :
      (library[i].editionTitle # None \/ library[i].rating # None) =>
         ServerNow(i) = [editionTitle |-> None, rating |-> None]

\* C28: in a Restore run at most batch_size units are queued or running, at
\* most max_workers execute at a time, and when the run ends progress was
\* stepped once for every unit, failed or not.
C28_RestoreBatchesLikeSync ==
  /\ Cardinality(InFlight) <= batch_size
  /\ Cardinality(Executing) <= max_workers
  /\ sync_pc = "end" => progress_done = Len(pending_movies)
(* =================== properties: a terminated run ====================== *)
\* C31: after the child is terminated, whenever that happens, the cache file
\* reads back as at least the entries the last completed flush wrote.
C31_KillKeepsFlushedEntries ==
  cache_pc = "killed" =>
    \A k \in DOMAIN loaded_cache(flushed) :
      /\ k \in DOMAIN loaded_cache(cache_file)
      /\ loaded_cache(cache_file)[k] = loaded_cache(flushed)[k]
(* ============== properties: maintenance runs and the cache ============= *)
\* the cache file the run loaded holds the item with its current signature
FileHolds(i) ==
  LET c == loaded_cache(file_at_load)
      k == movie_key(library[i])
  IN k \in DOMAIN c /\ c[k].signature = movie_signature(library[i])

\* C32: a Reset, Restore or Backup run does not write the cache file and
\* keeps in memory the cache as loaded, with nothing to flush; the SyncAll
\* run that follows skips every item the file holds with its current
\* signature.
C32_MaintenanceKeepsCache ==
  /\ [][nSyncRuns = 1 => cache_file' = cache_file]_vars
  /\ []((nSyncRuns = 1 /\ sync_pc # "boot") =>
          /\ progress_cache = loaded_cache(cache_file)
          /\ progress_cache_dirty = 0)
  /\ [](SecondRunLoaded =>
          \A i \in Items : FileHolds(i) => SkippedInThisRun(i))
C32_Witness ==
  /\ nSyncRuns = 2
  /\ sync_pc = "end"
  /\ backup_file = <<Entry("100", "A", "4K · 7.5"), Entry("200", "B", "PG"),
                     Entry("300", "C", "")>>
  /\ edited = <<FALSE, TRUE, FALSE>>
  /\ DOMAIN loaded_cache(file_at_load) = {"100", "200", "300"}
  /\ SkippedInThisRun(1)
  /\ SkippedInThisRun(3)
  /\ history[2][2].invoked = 1

(* ================= properties: backup, then restore ==================== *)
\* C33: after a Backup run and a Restore run of the file it wrote, every
\* item's label is the one it had before the Backup, and every request went
\* to an item of the backup.
C33_BackupRestoreRoundTrip ==
  (nSyncRuns = 2 /\ sync_pc = "end") =>
    \A i \in Items :
      /\ ServerNow(i).editionTitle = library[i].editionTitle
      /\ puts[i] # <<>> =>
           \E k \in 1..Len(backup_file) :
             backup_file[k].id = library[i].ratingKey
C33_Witness ==
  /\ nSyncRuns = 2
  /\ sync_pc = "end"
  /\ \A i \in Items : Len(puts[i]) = 1 /\ puts[i][1].outcome = "ok"
  /\ puts[1][1].params.editionTitle_value = "4K · 7.5"
  /\ puts[3][1].params.editionTitle_value = ""
  /\ ServerNow(1).editionTitle = Some("4K · 7.5")
  /\ ServerNow(3).editionTitle = None
====
